---- MODULE Spec2Model ----
(***************************************************************************)
(* The transaction store of LocalBudgetAI (src/app/database.py): the       *)
(* expenses table, its AUTOINCREMENT sequence, and the operations of       *)
(* ExpenseDatabase.  Text values are sequences of one-character strings so *)
(* that parsing, formatting and the engine's text comparison are computed  *)
(* character by character, the way the code and the SQL engine do.         *)
(* Amounts are whole currency units.                                       *)
(***************************************************************************)
EXTENDS Integers, Sequences, FiniteSets, TLC

VARIABLES expenses, sqlite_sequence, now, imp, last, session, frame, ai, conn

vars == <<expenses, sqlite_sequence, now, imp, last, session, frame, ai, conn>>

(***************************************************************************)
(* Bounds of the model.                                                    *)
(***************************************************************************)
\* ids ever assigned by the AUTOINCREMENT sequence
MaxId == 2
\* ticks of the wall clock read by CURRENT_TIMESTAMP
MaxClock == 1
\* rows of a frame handed to import_from_dataframe
MaxImport == 3
\* rows of a table handed to the analysis functions
MaxRows == 3

(***************************************************************************)
(* Characters and text.                                                    *)
(***************************************************************************)
Digits == {"0", "1", "2", "3", "4", "5", "6", "7", "8", "9"}

\* the code point of a character (the engine compares TEXT bytewise)
Ord(c) ==
    CASE c = " " -> 32
      [] c = "-" -> 45
      [] c = "/" -> 47
      [] c = "0" -> 48
      [] c = "1" -> 49
      [] c = "2" -> 50
      [] c = "3" -> 51
      [] c = "4" -> 52
      [] c = "5" -> 53
      [] c = "6" -> 54
      [] c = "7" -> 55
      [] c = "8" -> 56
      [] c = "9" -> 57
      [] OTHER -> 97

DigitVal(c) == Ord(c) - 48

DigitChar(n) ==
    CASE n = 0 -> "0"
      [] n = 1 -> "1"
      [] n = 2 -> "2"
      [] n = 3 -> "3"
      [] n = 4 -> "4"
      [] n = 5 -> "5"
      [] n = 6 -> "6"
      [] n = 7 -> "7"
      [] n = 8 -> "8"
      [] n = 9 -> "9"

AllDigits(s) == \A i \in 1..Len(s) : s[i] \in Digits

RECURSIVE NumVal(_)
NumVal(s) == IF s = <<>> THEN 0
             ELSE 10 * NumVal(SubSeq(s, 1, Len(s) - 1)) + DigitVal(s[Len(s)])

\* position of the first occurrence of character c in s at or after i, 0 if none
RECURSIVE Find(_, _, _)
Find(s, c, i) == IF i > Len(s) THEN 0
                 ELSE IF s[i] = c THEN i
                 ELSE Find(s, c, i + 1)

\* memcmp order of two texts (BINARY collation): -1, 0 or 1
RECURSIVE TextCmp(_, _)
TextCmp(a, b) ==
    IF a = <<>> /\ b = <<>> THEN 0
    ELSE IF a = <<>> THEN -1
    ELSE IF b = <<>> THEN 1
    ELSE IF Ord(a[1]) < Ord(b[1]) THEN -1
    ELSE IF Ord(a[1]) > Ord(b[1]) THEN 1
    ELSE TextCmp(Tail(a), Tail(b))

(***************************************************************************)
(* Calendar dates.                                                         *)
(***************************************************************************)
NoDate == [y |-> 0, m |-> 0, d |-> 0]

IsLeap(y) == (y % 4 = 0 /\ y % 100 # 0) \/ y % 400 = 0

DaysInMonth(y, m) ==
    IF m = 2 THEN (IF IsLeap(y) THEN 29 ELSE 28)
    ELSE IF m \in {4, 6, 9, 11} THEN 30
    ELSE 31

\* datetime(y, m, d) is constructible
ValidYMD(y, m, d) ==
    /\ y >= 1 /\ y <= 9999
    /\ m >= 1 /\ m <= 12
    /\ d >= 1 /\ d <= DaysInMonth(y, m)

MkDate(y, m, d) == IF ValidYMD(y, m, d) THEN [y |-> y, m |-> m, d |-> d] ELSE NoDate

\* a key that orders calendar dates
DateKey(dt) == dt.y * 10000 + dt.m * 100 + dt.d

(***************************************************************************)
(* datetime.strptime(date, "%Y-%m-%d"): the format compiles to the regex   *)
(* (\d\d\d\d)-(1[0-2]|0[1-9]|[1-9])-(3[0-1]|[1-2]\d|0[1-9]|[1-9]| [1-9])   *)
(* which must consume the whole text, and the fields must build a          *)
(* datetime.  NoDate stands for the ValueError.                            *)
(***************************************************************************)
MonthToken(s) ==
    \/ Len(s) = 2 /\ s[1] = "1" /\ s[2] \in {"0", "1", "2"}
    \/ Len(s) = 2 /\ s[1] = "0" /\ s[2] \in Digits \ {"0"}
    \/ Len(s) = 1 /\ s[1] \in Digits \ {"0"}

DayToken(s) ==
    \/ Len(s) = 2 /\ s[1] = "3" /\ s[2] \in {"0", "1"}
    \/ Len(s) = 2 /\ s[1] \in {"1", "2"} /\ s[2] \in Digits
    \/ Len(s) = 2 /\ s[1] = "0" /\ s[2] \in Digits \ {"0"}
    \/ Len(s) = 1 /\ s[1] \in Digits \ {"0"}
    \/ Len(s) = 2 /\ s[1] = " " /\ s[2] \in Digits \ {"0"}

\* the digits of a day token (" 5" reads as 5)
DayDigits(s) == IF s[1] = " " THEN Tail(s) ELSE s

strptime(s) ==
    IF Len(s) < 8 \/ ~AllDigits(SubSeq(s, 1, 4)) \/ s[5] # "-" THEN NoDate
    ELSE LET p == Find(s, "-", 6)
         IN  IF p = 0 THEN NoDate
             ELSE LET mt == SubSeq(s, 6, p - 1)
                      dt == SubSeq(s, p + 1, Len(s))
                  IN  IF MonthToken(mt) /\ DayToken(dt)
                      THEN MkDate(NumVal(SubSeq(s, 1, 4)), NumVal(mt),
                                  NumVal(DayDigits(dt)))
                      ELSE NoDate

(***************************************************************************)
(* pd.to_datetime(text) for one value, for the two shapes the model's      *)
(* inputs use: year-month-day with "-" and month/day/year with "/" (the    *)
(* parser reads the first field as the month and falls back to day first   *)
(* when it exceeds 12).  NoDate stands for the parse failure.              *)
(***************************************************************************)
ShortNum(s) == Len(s) \in {1, 2} /\ AllDigits(s)

to_datetime(s) ==
    LET d1 == Find(s, "-", 1)
        s1 == Find(s, "/", 1)
    IN  IF d1 = 5
        THEN LET p == Find(s, "-", 6)
                 yt == SubSeq(s, 1, 4)
                 mt == SubSeq(s, 6, p - 1)
                 dt == SubSeq(s, p + 1, Len(s))
             IN  IF p # 0 /\ AllDigits(yt) /\ ShortNum(mt) /\ ShortNum(dt)
                 THEN MkDate(NumVal(yt), NumVal(mt), NumVal(dt))
                 ELSE NoDate
        ELSE IF s1 # 0
        THEN LET p == Find(s, "/", s1 + 1)
                 at == SubSeq(s, 1, s1 - 1)
                 bt == SubSeq(s, s1 + 1, p - 1)
                 yt == SubSeq(s, p + 1, Len(s))
             IN  IF p # 0 /\ ShortNum(at) /\ ShortNum(bt) /\ Len(yt) = 4 /\ AllDigits(yt)
                 THEN IF NumVal(at) <= 12
                      THEN MkDate(NumVal(yt), NumVal(at), NumVal(bt))
                      ELSE MkDate(NumVal(yt), NumVal(bt), NumVal(at))
                 ELSE NoDate
        ELSE NoDate

\* n written with exactly w digits, zero padded
RECURSIVE Pad(_, _)
Pad(n, w) == IF w = 0 THEN <<>>
             ELSE Append(Pad(n \div 10, w - 1), DigitChar(n % 10))

\* Timestamp.strftime("%Y-%m-%d")
strftime(dt) == Pad(dt.y, 4) \o <<"-">> \o Pad(dt.m, 2) \o <<"-">> \o Pad(dt.d, 2)

(***************************************************************************)
(* The date texts of the model, and the three text functions tabulated     *)
(* over them (each table is computed once from the operator it tabulates). *)
(***************************************************************************)
D_2024_01_10 == <<"2", "0", "2", "4", "-", "0", "1", "-", "1", "0">>
D_2024_1_5 == <<"2", "0", "2", "4", "-", "1", "-", "5">>
D_2024_02_30 == <<"2", "0", "2", "4", "-", "0", "2", "-", "3", "0">>
D_1_10_2024 == <<"1", "/", "1", "0", "/", "2", "0", "2", "4">>
D_not_a_date == <<"n", "o", "t", "-", "a", "-", "d", "a", "t", "e">>
D_2023_12_31 == <<"2", "0", "2", "3", "-", "1", "2", "-", "3", "1">>

DateTexts == {<<>>, D_2024_01_10, D_2024_1_5, D_2024_02_30, D_1_10_2024,
              D_not_a_date, D_2023_12_31}

strptimeOf == [s \in DateTexts |-> strptime(s)]
to_datetimeOf == [s \in DateTexts |-> to_datetime(s)]
TextCmpOf == [a \in DateTexts |-> [b \in DateTexts |-> TextCmp(a, b)]]

(***************************************************************************)
(* Values handed to the store.  A Python amount is a tagged value:         *)
(* type "int" or "float" (nan marks float("nan")) or "str".  A date is a   *)
(* text; the empty text also stands for None (both are falsy).             *)
(***************************************************************************)
IntAmt(n) == [type |-> "int", nan |-> FALSE, v |-> n]
FloatAmt(n) == [type |-> "float", nan |-> FALSE, v |-> n]
NaNAmt == [type |-> "float", nan |-> TRUE, v |-> 0]
StrAmt == [type |-> "str", nan |-> FALSE, v |-> 0]

Tx(date, amount, category, description) ==
    [date |-> date, amount |-> amount, category |-> category,
     description |-> description]

\* arguments the store accepts
GoodTx == {Tx(D_2024_01_10, FloatAmt(-50), "Food", ""),
           Tx(D_2024_1_5, IntAmt(20), "Income", "Salary")}

\* arguments it rejects: empty date, text amount, 30 February, a date in
\* another format, empty category, NaN amount
BadTx == {Tx(<<>>, IntAmt(-10), "Food", ""),
          Tx(D_2024_01_10, StrAmt, "Food", ""),
          Tx(D_2024_02_30, FloatAmt(-50), "Food", ""),
          Tx(D_1_10_2024, FloatAmt(-50), "Food", ""),
          Tx(D_2024_01_10, FloatAmt(-50), "", ""),
          Tx(D_2024_01_10, NaNAmt, "Food", "")}

TxInputs == GoodTx \cup BadTx

NoTx == Tx(<<>>, IntAmt(0), "", "")

Ids == 1..(MaxId + 1)

(***************************************************************************)
(* The expenses table (database.py:44-56).  expenses maps the ids present  *)
(* to their rows; sqlite_sequence is the largest id AUTOINCREMENT has      *)
(* ever assigned.                                                          *)
(***************************************************************************)
MaxOf(S) == IF S = {} THEN 0 ELSE CHOOSE x \in S : \A y \in S : y <= x

\* column affinity REAL: numbers are stored as reals, NaN binds as NULL,
\* text that is no number stays text
RealAffinity(a) ==
    IF a.type \in {"int", "float"} THEN [type |-> "float", nan |-> a.nan, v |-> a.v]
    ELSE a

\* the three NOT NULL columns of a row to be written
NotNullOk(date, amount, category) == ~RealAffinity(amount).nan

\* the argument checks without the strptime check
ValidateArgsNoDate(date, amount, category) ==
    IF date = <<>> \/ category = "" THEN "ValueError"
    ELSE IF amount.type \notin {"int", "float"} THEN "ValueError"
    ELSE ""

\* the argument checks without the category check
ValidateArgsNoCategory(date, amount, category) ==
    IF date = <<>> THEN "ValueError"
    ELSE IF strptimeOf[date] = NoDate THEN "ValueError"
    ELSE IF amount.type \notin {"int", "float"} THEN "ValueError"
    ELSE ""

\* the argument checks of insert_expense (database.py:94-104) and of
\* update_expense (database.py:204-213), which are the same
ValidateArgs(date, amount, category) ==
    IF date = <<>> \/ category = "" THEN "ValueError"
    ELSE IF strptimeOf[date] = NoDate THEN "ValueError"
    ELSE IF amount.type \notin {"int", "float"} THEN "ValueError"
    ELSE ""

\* the INSERT into a table declared without AUTOINCREMENT: the new id is
\* one more than the greatest id in the table
SqlInsertRowid(tbl, seq, t, tx) ==
    IF ~NotNullOk(tx.date, tx.amount, tx.category)
    THEN [raised |-> "IntegrityError", ret |-> 0, tbl |-> tbl, seq |-> seq]
    ELSE LET id == MaxOf(DOMAIN tbl \cup {0}) + 1
             row == [id |-> id, date |-> tx.date,
                     amount |-> RealAffinity(tx.amount),
                     category |-> tx.category, description |-> tx.description,
                     created_at |-> t, updated_at |-> t]
         IN  [raised |-> "", ret |-> id,
              tbl |-> [i \in DOMAIN tbl \cup {id} |-> IF i = id THEN row ELSE tbl[i]],
              seq |-> MaxOf({seq, id})]

\* INSERT INTO expenses: the outcome as [raised, ret, tbl, seq]
SqlInsert(tbl, seq, t, tx) ==
    IF ~NotNullOk(tx.date, tx.amount, tx.category)
    THEN [raised |-> "IntegrityError", ret |-> 0, tbl |-> tbl, seq |-> seq]
    ELSE LET id == MaxOf(DOMAIN tbl \cup {seq}) + 1
             row == [id |-> id, date |-> tx.date,
                     amount |-> RealAffinity(tx.amount),
                     category |-> tx.category, description |-> tx.description,
                     created_at |-> t, updated_at |-> t]
         IN  [raised |-> "", ret |-> id,
              tbl |-> [i \in DOMAIN tbl \cup {id} |-> IF i = id THEN row ELSE tbl[i]],
              seq |-> id]

insert_expense(tbl, seq, t, tx) ==
    LET v == ValidateArgs(tx.date, tx.amount, tx.category)
    IN  IF v # "" THEN [raised |-> v, ret |-> 0, tbl |-> tbl, seq |-> seq]
        ELSE SqlInsert(tbl, seq, t, tx)

\* the UPDATE without its WHERE clause: every row is rewritten
SqlUpdateAll(tbl, t, id, tx) ==
    IF DOMAIN tbl = {} THEN [raised |-> "", ok |-> FALSE, tbl |-> tbl]
    ELSE [raised |-> "", ok |-> TRUE,
          tbl |-> [i \in DOMAIN tbl |->
                     [tbl[i] EXCEPT !.date = tx.date,
                                    !.amount = RealAffinity(tx.amount),
                                    !.category = tx.category,
                                    !.description = tx.description,
                                    !.updated_at = t]]]

\* the UPDATE also resetting created_at
SqlUpdateTouchCreated(tbl, t, id, tx) ==
    IF id \notin DOMAIN tbl THEN [raised |-> "", ok |-> FALSE, tbl |-> tbl]
    ELSE [raised |-> "", ok |-> TRUE,
          tbl |-> [tbl EXCEPT ![id] =
                     [@ EXCEPT !.date = tx.date,
                               !.amount = RealAffinity(tx.amount),
                               !.category = tx.category,
                               !.description = tx.description,
                               !.created_at = t,
                               !.updated_at = t]]]

\* UPDATE expenses SET ... WHERE id = ?: the outcome as [raised, ok, tbl]
SqlUpdate(tbl, t, id, tx) ==
    IF id \notin DOMAIN tbl THEN [raised |-> "", ok |-> FALSE, tbl |-> tbl]
    ELSE IF ~NotNullOk(tx.date, tx.amount, tx.category)
    THEN [raised |-> "IntegrityError", ok |-> FALSE, tbl |-> tbl]
    ELSE [raised |-> "", ok |-> TRUE,
          tbl |-> [tbl EXCEPT ![id] =
                     [@ EXCEPT !.date = tx.date,
                               !.amount = RealAffinity(tx.amount),
                               !.category = tx.category,
                               !.description = tx.description,
                               !.updated_at = t]]]

\* update_expense looking the id up before it validates
update_expense_lookup_first(tbl, t, id, tx) ==
    IF id \notin DOMAIN tbl THEN [raised |-> "", ok |-> FALSE, tbl |-> tbl]
    ELSE LET v == ValidateArgs(tx.date, tx.amount, tx.category)
         IN  IF v # "" THEN [raised |-> v, ok |-> FALSE, tbl |-> tbl]
             ELSE SqlUpdate(tbl, t, id, tx)

update_expense(tbl, t, id, tx) ==
    LET v == ValidateArgs(tx.date, tx.amount, tx.category)
    IN  IF v # "" THEN [raised |-> v, ok |-> FALSE, tbl |-> tbl]
        ELSE SqlUpdate(tbl, t, id, tx)

\* the DELETE matching every id up to the given one
delete_expense_upto(tbl, id) ==
    IF id \in DOMAIN tbl
    THEN [ok |-> TRUE, tbl |-> [i \in {j \in DOMAIN tbl : j > id} |-> tbl[i]]]
    ELSE [ok |-> FALSE, tbl |-> tbl]

\* DELETE FROM expenses WHERE id = ?: the outcome as [ok, tbl]
delete_expense(tbl, id) ==
    IF id \in DOMAIN tbl
    THEN [ok |-> TRUE, tbl |-> [i \in DOMAIN tbl \ {id} |-> tbl[i]]]
    ELSE [ok |-> FALSE, tbl |-> tbl]

\* the dict get_expense_by_id builds from the selected columns; found is
\* FALSE for None
NoRecord == [found |-> FALSE, id |-> 0, date |-> <<>>, amount |-> FloatAmt(0),
             category |-> "", description |-> "", created_at |-> 0]

\* the dict built with the category and description columns swapped
get_expense_by_id_swapped(tbl, id) ==
    IF id \in DOMAIN tbl
    THEN [found |-> TRUE, id |-> tbl[id].id, date |-> tbl[id].date,
          amount |-> tbl[id].amount, category |-> tbl[id].description,
          description |-> tbl[id].category, created_at |-> tbl[id].created_at]
    ELSE NoRecord

get_expense_by_id(tbl, id) ==
    IF id \in DOMAIN tbl
    THEN [found |-> TRUE, id |-> tbl[id].id, date |-> tbl[id].date,
          amount |-> tbl[id].amount, category |-> tbl[id].category,
          description |-> tbl[id].description, created_at |-> tbl[id].created_at]
    ELSE NoRecord

(***************************************************************************)
(* fetch_expenses (database.py:124-178): the WHERE clause is the list of   *)
(* conditions joined with AND, the order is the engine's text order of the *)
(* date column, then id; the date column of a non-empty frame is converted *)
(* with pd.to_datetime.  A filter that is None or empty is falsy and adds  *)
(* no condition; limit 0 stands for None.                                  *)
(***************************************************************************)
Cond(col, val) == [col |-> col, val |-> val]

Conditions(category, start_date, end_date) ==
    (IF category # "" THEN <<Cond("category = ?", category)>> ELSE <<>>)
    \o (IF start_date # <<>> THEN <<Cond("date >= ?", start_date)>> ELSE <<>>)
    \o (IF end_date # <<>> THEN <<Cond("date <= ?", end_date)>> ELSE <<>>)

\* the end of the date range compared with < instead of <=
HoldsHalfOpen(row, c) ==
    CASE c.col = "category = ?" -> row.category = c.val
      [] c.col = "date >= ?" -> TextCmpOf[row.date][c.val] >= 0
      [] c.col = "date <= ?" -> TextCmpOf[row.date][c.val] < 0

Holds(row, c) ==
    CASE c.col = "category = ?" -> row.category = c.val
      [] c.col = "date >= ?" -> TextCmpOf[row.date][c.val] >= 0
      [] c.col = "date <= ?" -> TextCmpOf[row.date][c.val] <= 0

\* the conditions joined with OR
WhereAny(row, conditions) ==
    conditions = <<>> \/ \E i \in 1..Len(conditions) : Holds(row, conditions[i])

\* " WHERE " + " AND ".join(conditions)
Where(row, conditions) == \A i \in 1..Len(conditions) : Holds(row, conditions[i])

\* ORDER BY date DESC, id DESC: row a comes before row b
OrderedBefore(a, b) ==
    \/ TextCmpOf[a.date][b.date] = 1
    \/ TextCmpOf[a.date][b.date] = 0 /\ a.id > b.id

RECURSIVE OrderBy(_)
OrderBy(S) ==
    IF S = {} THEN <<>>
    ELSE LET r == CHOOSE x \in S : \A o \in S \ {x} : OrderedBefore(x, o)
         IN  <<r>> \o OrderBy(S \ {r})

Limit(rs, limit) ==
    IF limit # 0 /\ limit < Len(rs) THEN SubSeq(rs, 1, limit) ELSE rs

\* the frame's row for a table row: the selected columns, date converted
FrameRow(row) ==
    [id |-> row.id, date |-> to_datetimeOf[row.date], amount |-> row.amount,
     category |-> row.category, description |-> row.description,
     created_at |-> row.created_at]

fetch_expenses(tbl, limit, category, start_date, end_date) ==
    LET conditions == Conditions(category, start_date, end_date)
        selected == {r \in {tbl[i] : i \in DOMAIN tbl} : Where(r, conditions)}
        result == Limit(OrderBy(selected), limit)
    IN  [i \in 1..Len(result) |-> FrameRow(result[i])]

(***************************************************************************)
(* apply_filters_to_dataframe (main.py:285-313) on a frame fetch_expenses  *)
(* returned: three masks applied one after the other.  A filter that is    *)
(* None (set = FALSE) or an empty list is falsy and applies no mask.       *)
(***************************************************************************)
NoRange == [set |-> FALSE, lo |-> 0, hi |-> 0]
Range(lo, hi) == [set |-> TRUE, lo |-> lo, hi |-> hi]
NoDateRange == [set |-> FALSE, lo |-> NoDate, hi |-> NoDate]

Abs(n) == IF n < 0 THEN -n ELSE n

apply_filters_to_dataframe(df, filters) ==
    IF df = <<>> THEN df
    ELSE LET InDates(r) == /\ DateKey(r.date) >= DateKey(filters.date_range.lo)
                           /\ DateKey(r.date) <= DateKey(filters.date_range.hi)
             InCategories(r) == r.category \in filters.categories
             InAmounts(r) == /\ Abs(r.amount.v) >= filters.amount_range.lo
                             /\ Abs(r.amount.v) <= filters.amount_range.hi
             f1 == IF filters.date_range.set THEN SelectSeq(df, InDates) ELSE df
             f2 == IF filters.categories # {} THEN SelectSeq(f1, InCategories) ELSE f1
         IN  IF filters.amount_range.set THEN SelectSeq(f2, InAmounts) ELSE f2

\* the session's filters the model applies
UiFilters ==
    [date_range : {NoDateRange, Range(MkDate(2024, 1, 5), MkDate(2024, 1, 5)),
                   Range(MkDate(2024, 1, 5), MkDate(2024, 1, 10))},
     categories : {{}, {"Food"}, {"Food", "Income"}},
     amount_range : {NoRange, Range(20, 20), Range(20, 50)}]

(***************************************************************************)
(* One iteration of the loop of import_from_dataframe (database.py:        *)
(* 371-412).  A raw date is NaN, a Timestamp or a text; a raw description  *)
(* may be NaN.  The outcome is [why, tx]: why is "" when the row reaches   *)
(* insert_expense with tx, else the check that skipped it.                 *)
(***************************************************************************)
RawNaN == [kind |-> "nan", s |-> <<>>, ts |-> NoDate]
RawText(s) == [kind |-> "str", s |-> s, ts |-> NoDate]
RawStamp(y, m, d) == [kind |-> "Timestamp", s |-> <<>>, ts |-> MkDate(y, m, d)]
Desc(s) == [nan |-> FALSE, s |-> s]
NaNDesc == [nan |-> TRUE, s |-> ""]

Raw(date, amount, category, description) ==
    [date |-> date, amount |-> amount, category |-> category,
     description |-> description]

\* rows the import keeps
GoodRaw == {Raw(RawText(D_1_10_2024), FloatAmt(-50), "Food", NaNDesc),
            Raw(RawStamp(2024, 1, 10), IntAmt(-50), "Food", Desc(""))}

\* rows it skips: NaN date, unparseable date, text amount, NaN amount,
\* empty category
BadRaw == {Raw(RawNaN, FloatAmt(-50), "Food", Desc("")),
           Raw(RawText(D_not_a_date), FloatAmt(-50), "Food", Desc("")),
           Raw(RawText(D_2024_01_10), StrAmt, "Food", Desc("")),
           Raw(RawText(D_2024_01_10), NaNAmt, "Food", Desc("")),
           Raw(RawText(D_2024_01_10), FloatAmt(-50), "", Desc(""))}

RawRows == GoodRaw \cup BadRaw

\* the date handed on as it came, without parsing and reformatting
ImportDateAsIs(rd) ==
    IF rd.kind = "nan" THEN <<>>
    ELSE IF rd.kind = "Timestamp" THEN strftime(rd.ts)
    ELSE rd.s

\* the date text handed to insert_expense (database.py:374-386); the empty
\* text stands for a row skipped for its date
ImportDate(rd) ==
    IF rd.kind = "nan" THEN <<>>
    ELSE IF rd.kind = "Timestamp" THEN strftime(rd.ts)
    ELSE IF to_datetimeOf[rd.s] = NoDate THEN <<>>
    ELSE strftime(to_datetimeOf[rd.s])

ImportRowCheck(raw) ==
    LET date_str == ImportDate(raw.date)
    IN  IF date_str = <<>> THEN [why |-> "date", tx |-> NoTx]
        ELSE IF raw.amount.nan \/ raw.amount.type \notin {"int", "float"}
        THEN [why |-> "amount", tx |-> NoTx]
        ELSE IF raw.category = "" THEN [why |-> "category", tx |-> NoTx]
        ELSE [why |-> "",
              tx |-> Tx(date_str, FloatAmt(raw.amount.v), raw.category,
                        IF raw.description.nan THEN "" ELSE raw.description.s)]

(***************************************************************************)
(* get_database_stats (database.py:308-344): five aggregate queries over   *)
(* the table.  SUM over no row is NULL, which "or 0" turns into 0; MIN and *)
(* MAX of the date column compare text and are NULL on an empty table.     *)
(***************************************************************************)
RECURSIVE SumFn(_, _)
SumFn(f, S) ==
    IF S = {} THEN 0
    ELSE LET x == CHOOSE y \in S : TRUE IN f[x] + SumFn(f, S \ {x})

\* SELECT SUM(amount) FROM expenses WHERE the ids of S; 0 stands for "or 0"
SqlSum(tbl, S) == SumFn([id \in S |-> tbl[id].amount.v], S)

NoDates == [none |-> TRUE, min |-> <<>>, max |-> <<>>]

\* SELECT MIN(date), MAX(date) FROM expenses
MinMaxDate(tbl) ==
    IF DOMAIN tbl = {} THEN NoDates
    ELSE LET ds == {tbl[id].date : id \in DOMAIN tbl}
         IN  [none |-> FALSE,
              min |-> CHOOSE d \in ds : \A o \in ds : TextCmpOf[d][o] <= 0,
              max |-> CHOOSE d \in ds : \A o \in ds : TextCmpOf[d][o] >= 0]

\* net_savings computed as income minus the (negative) sum of the expenses
get_database_stats_minus(tbl) ==
    LET total_expenses == SqlSum(tbl, {id \in DOMAIN tbl : tbl[id].amount.v < 0})
        total_income == SqlSum(tbl, {id \in DOMAIN tbl : tbl[id].amount.v > 0})
    IN  [total_records |-> Cardinality(DOMAIN tbl),
         total_expenses |-> Abs(total_expenses),
         total_income |-> total_income,
         net_savings |-> total_income - total_expenses,
         date_range |-> MinMaxDate(tbl),
         category_count |-> Cardinality({tbl[id].category : id \in DOMAIN tbl})]

get_database_stats(tbl) ==
    LET total_expenses == SqlSum(tbl, {id \in DOMAIN tbl : tbl[id].amount.v < 0})
        total_income == SqlSum(tbl, {id \in DOMAIN tbl : tbl[id].amount.v > 0})
    IN  [total_records |-> Cardinality(DOMAIN tbl),
         total_expenses |-> Abs(total_expenses),
         total_income |-> total_income,
         net_savings |-> total_income + total_expenses,
         date_range |-> MinMaxDate(tbl),
         category_count |-> Cardinality({tbl[id].category : id \in DOMAIN tbl})]

(***************************************************************************)
(* The state machine.  last records the latest call: the operation, the    *)
(* id it was given and what it returned or raised.  imp is the position of *)
(* a running import_from_dataframe: rows seen (n), imported_count, and,    *)
(* for the record, the position of the first row skipped for its amount    *)
(* and the AUTOINCREMENT sequence when the import began.                   *)
(***************************************************************************)
\* st.session_state as init_session_state leaves it (main.py:47-56)
NoFilters == [date_range |-> NoDateRange, categories |-> {}, amount_range |-> NoRange]
NoSession == [filters |-> NoFilters, confirm_delete |-> FALSE]

\* no table has been handed to the analysis functions
NoFrame == [columns |-> {}, rows |-> <<>>]

\* no AI query asked, and no connection of a statistics call open
NoQuery == [pc |-> "idle"]
Closed == [pc |-> 0]

Idle == [active |-> FALSE, n |-> 0, count |-> 0, amtAt |-> 0, seq0 |-> 0]

\* the filter arguments the Fetch action is called with
FetchCategories == {"", "Food"}
FetchDates == {<<>>, D_2024_01_10, D_2024_1_5}
FetchLimits == {0, 1}

Init ==
    /\ expenses = <<>>
    /\ sqlite_sequence = 0
    /\ now = 0
    /\ imp = Idle
    /\ last = [op |-> "init"]
    /\ session = NoSession
    /\ frame = NoFrame
    /\ ai = NoQuery
    /\ conn = Closed

\* a second of wall-clock time passes
Tick ==
    /\ now < MaxClock
    /\ now' = now + 1
    /\ UNCHANGED <<expenses, sqlite_sequence, imp, last, session, frame, ai, conn>>

Insert(tx) ==
    /\ ~imp.active
    /\ LET out == insert_expense(expenses, sqlite_sequence, now, tx)
       IN  /\ out.raised = "" => sqlite_sequence < MaxId
           /\ last' = [op |-> "insert", raised |-> out.raised, ret |-> out.ret]
           /\ sqlite_sequence' = out.seq
           /\ expenses' = out.tbl
    /\ UNCHANGED <<now, imp, session, frame, ai, conn>>

Update(id, tx) ==
    /\ ~imp.active
    /\ LET out == update_expense(expenses, now, id, tx)
       IN  /\ last' = [op |-> "update", id |-> id, raised |-> out.raised,
                       ok |-> out.ok]
           /\ expenses' = out.tbl
    /\ UNCHANGED <<sqlite_sequence, now, imp, session, frame, ai, conn>>

Delete(id) ==
    /\ ~imp.active
    /\ LET out == delete_expense(expenses, id)
       IN  /\ last' = [op |-> "delete", id |-> id, raised |-> "", ok |-> out.ok]
           /\ expenses' = out.tbl
    /\ UNCHANGED <<sqlite_sequence, now, imp, session, frame, ai, conn>>

GetById(id) ==
    /\ ~imp.active
    /\ last' = [op |-> "get", id |-> id, raised |-> "",
                rec |-> get_expense_by_id(expenses, id)]
    /\ UNCHANGED <<expenses, sqlite_sequence, now, imp, session, frame, ai, conn>>

Fetch(limit, category, start_date, end_date) ==
    /\ ~imp.active
    /\ last' = [op |-> "fetch", raised |-> "",
                df |-> fetch_expenses(expenses, limit, category, start_date,
                                      end_date)]
    /\ UNCHANGED <<expenses, sqlite_sequence, now, imp, session, frame, ai, conn>>

Stats ==
    /\ ~imp.active
    /\ last' = [op |-> "stats", raised |-> "", stats |-> get_database_stats(expenses)]
    /\ UNCHANGED <<expenses, sqlite_sequence, now, imp, session, frame, ai, conn>>

\* import_from_dataframe up to its loop (database.py:359-369): a frame
\* without the required columns raises, else the loop starts
ImportBegin(has_columns) ==
    /\ ~imp.active
    /\ IF has_columns
       THEN /\ imp' = [Idle EXCEPT !.active = TRUE, !.seq0 = sqlite_sequence]
            /\ last' = [op |-> "import_begin", raised |-> ""]
       ELSE /\ imp' = imp
            /\ last' = [op |-> "import", raised |-> "ValueError", ret |-> 0,
                        n |-> 0, amtAt |-> 0]
    /\ UNCHANGED <<expenses, sqlite_sequence, now, session, frame, ai, conn>>

\* one iteration of the loop, on the frame's next row (database.py:371-412)
ImportRow(raw) ==
    /\ imp.active /\ imp.n < MaxImport
    /\ LET chk == ImportRowCheck(raw)
           out == insert_expense(expenses, sqlite_sequence, now, chk.tx)
           why == IF chk.why # "" THEN chk.why
                  ELSE IF out.raised # "" THEN "insert" ELSE ""
       IN  /\ why = "" => sqlite_sequence < MaxId
           /\ last' = [op |-> "import_row", raised |-> ""]
           /\ imp' = [imp EXCEPT !.n = @ + 1,
                        !.count = IF why = "" THEN @ + 1 ELSE @,
                        !.amtAt = IF why = "amount" /\ @ = 0 THEN imp.n + 1 ELSE @]
           /\ sqlite_sequence' = IF why = "" THEN out.seq ELSE sqlite_sequence
           /\ expenses' = IF why = "" THEN out.tbl ELSE expenses
    /\ UNCHANGED <<now, session, frame, ai, conn>>

\* the frame has no more rows: return imported_count (database.py:414-415)
ImportReturn ==
    /\ imp.active
    /\ imp' = Idle
    /\ last' = [op |-> "import", raised |-> "", ret |-> imp.count, n |-> imp.n,
                amtAt |-> imp.amtAt]
    /\ UNCHANGED <<expenses, sqlite_sequence, now, session, frame, ai, conn>>

Next ==
    \/ Tick
    \/ \E tx \in TxInputs : Insert(tx)
    \/ \E id \in Ids, tx \in TxInputs : Update(id, tx)
    \/ \E id \in Ids : Delete(id)
    \/ \E id \in Ids : GetById(id)
    \/ \E l \in FetchLimits, c \in FetchCategories, s \in FetchDates, e \in FetchDates :
          Fetch(l, c, s, e)
    \/ Stats
    \/ \E h \in BOOLEAN : ImportBegin(h)
    \/ \E raw \in RawRows : ImportRow(raw)
    \/ ImportReturn

Spec == Init /\ [][Next]_vars

(***************************************************************************)
(* The Streamlit pages over the store (src/app/main.py): the manual entry  *)
(* form, the sidebar's filters and the two Delete All Data buttons.  A     *)
(* page handler runs start to end on one store; session is                 *)
(* st.session_state, last the latest handler and the message it showed.    *)
(***************************************************************************)
SelectExisting == "Select existing..."
AddNew == "Add new category"

Form(entry_date, amount, category_option, new_category) ==
    [entry_date |-> entry_date, amount |-> amount,
     category_option |-> category_option, new_category |-> new_category,
     description |-> ""]

\* the category the form submits (main.py:596-601)
FormCategory(form) ==
    IF form.category_option = AddNew THEN form.new_category
    ELSE IF form.category_option = SelectExisting THEN ""
    ELSE form.category_option

\* the form's handler without its check of the amount
show_manual_entry_section_any_amount(tbl, seq, t, form) ==
    LET category == FormCategory(form)
    IN  IF category = "" \/ category = SelectExisting
        THEN [shown |-> "error", tbl |-> tbl, seq |-> seq]
        ELSE LET out == insert_expense(tbl, seq, t,
                            Tx(strftime(form.entry_date), form.amount, category,
                               form.description))
             IN  IF out.raised # ""
                 THEN [shown |-> "error", tbl |-> tbl, seq |-> seq]
                 ELSE [shown |-> "success", tbl |-> out.tbl, seq |-> out.seq]

\* the handler of the submitted form (main.py:619-661): what it shows and
\* the store it leaves
show_manual_entry_section(tbl, seq, t, form) ==
    LET category == FormCategory(form)
    IN  IF category = "" \/ category = SelectExisting
        THEN [shown |-> "error", tbl |-> tbl, seq |-> seq]
        ELSE IF form.amount.v = 0
        THEN [shown |-> "error", tbl |-> tbl, seq |-> seq]
        ELSE LET out == insert_expense(tbl, seq, t,
                            Tx(strftime(form.entry_date), form.amount, category,
                               form.description))
             IN  IF out.raised # ""
                 THEN [shown |-> "error", tbl |-> tbl, seq |-> seq]
                 ELSE [shown |-> "success", tbl |-> out.tbl, seq |-> out.seq]

\* db.delete_all_data(): ExpenseDatabase (database.py:17-415) defines no
\* method of that name, so the attribute lookup raises
delete_all_data(tbl) == [raised |-> "AttributeError", ret |-> 0, tbl |-> tbl]

\* transactions handed to insert_expense directly, one of amount zero
AppTx ==
    {Tx(D_2024_01_10, FloatAmt(-50), "Food", ""),
     Tx(D_2024_01_10, FloatAmt(0), "Food", ""),
     Tx(D_2024_1_5, IntAmt(20), "Income", "Salary")}

Forms ==
    {Form(MkDate(2024, 1, 10), a, c, n) :
        a \in {FloatAmt(-50), FloatAmt(0)},
        c \in {SelectExisting, "Food", AddNew},
        n \in {"", "Gas"}}

AppFilters == {NoFilters, [NoFilters EXCEPT !.categories = {"Food"}]}

DeletePages == {"dashboard", "manage"}

ManualEntry(form) ==
    /\ ~imp.active
    /\ LET out == show_manual_entry_section(expenses, sqlite_sequence, now, form)
       IN  /\ out.shown = "success" => sqlite_sequence < MaxId
           /\ last' = [op |-> "manual_entry", raised |-> "", shown |-> out.shown]
           /\ sqlite_sequence' = out.seq
           /\ expenses' = out.tbl
    /\ UNCHANGED <<now, imp, session, frame, ai, conn>>

\* the sidebar's widgets, shown while the store has rows (main.py:162-259)
SetFilters(f) ==
    /\ ~imp.active
    /\ get_database_stats(expenses).total_records > 0
    /\ f.categories \subseteq {expenses[id].category : id \in DOMAIN expenses}
    /\ session' = [session EXCEPT !.filters = f]
    /\ last' = [op |-> "set_filters", raised |-> ""]
    /\ UNCHANGED <<expenses, sqlite_sequence, now, imp, frame, ai, conn>>

\* the Delete All Data button of the dashboard (main.py:1440-1455) or of the
\* management page (main.py:671-682): the confirmation is offered
DeleteAllClick(page) ==
    /\ ~imp.active
    /\ get_database_stats(expenses).total_records > 0
    /\ IF page = "dashboard"
       THEN /\ session' = [session EXCEPT !.confirm_delete = TRUE]
            /\ last' = [op |-> "delete_all_click", raised |-> "", page |-> page,
                        asked |-> ~session.confirm_delete]
       ELSE /\ session' = session
            /\ last' = [op |-> "delete_all_click", raised |-> "", page |-> page,
                        asked |-> TRUE]
    /\ UNCHANGED <<expenses, sqlite_sequence, now, imp, frame, ai, conn>>

\* the confirmation button (main.py:686-700, 1459-1473)
ConfirmDeleteAll ==
    /\ ~imp.active
    /\ last.op = "delete_all_click" /\ last.asked
    /\ LET out == delete_all_data(expenses)
       IN  IF out.raised = ""
           THEN /\ expenses' = out.tbl
                /\ session' = [filters |-> NoFilters,
                               confirm_delete |-> IF last.page = "dashboard" THEN FALSE
                                                  ELSE session.confirm_delete]
                /\ last' = [op |-> "delete_all", raised |-> "", shown |-> "success",
                            deleted |-> out.ret]
           ELSE /\ expenses' = expenses
                /\ session' = session
                /\ last' = [op |-> "delete_all", raised |-> "", shown |-> "error",
                            deleted |-> 0]
    /\ UNCHANGED <<sqlite_sequence, now, imp, frame, ai, conn>>

\* the cancel button (main.py:702-704, 1475-1478)
CancelDeleteAll ==
    /\ ~imp.active
    /\ last.op = "delete_all_click" /\ last.asked
    /\ session' = [session EXCEPT !.confirm_delete =
                       IF last.page = "dashboard" THEN FALSE ELSE @]
    /\ last' = [op |-> "delete_all_cancel", raised |-> ""]
    /\ UNCHANGED <<expenses, sqlite_sequence, now, imp, frame, ai, conn>>

NextApp ==
    \/ \E tx \in AppTx : Insert(tx)
    \/ \E form \in Forms : ManualEntry(form)
    \/ \E f \in AppFilters : SetFilters(f)
    \/ \E page \in DeletePages : DeleteAllClick(page)
    \/ ConfirmDeleteAll
    \/ CancelDeleteAll

SpecApp == Init /\ [][NextApp]_vars

(***************************************************************************)
(* The analysis functions (src/app/analyzer.py) over a table handed to     *)
(* them: frame is the DataFrame, its columns and its rows in order.  A     *)
(* cell of Category is a text or None, a cell of Amount an int, a float,   *)
(* NaN, a text that is no numeral or a text that is one, a cell of Date a  *)
(* text.  Amounts of a frame are in hundredths of the currency unit.  A    *)
(* function's outcome is [raised, result]; result is the Series as the     *)
(* sequence of its (key, total) entries.                                   *)
(***************************************************************************)
Cat(s) == [nan |-> FALSE, s |-> s]
NoneCat == [nan |-> TRUE, s |-> ""]
NumStrAmt(n) == [type |-> "numstr", nan |-> FALSE, v |-> n]

Row(c, a, d) == [Category |-> c, Amount |-> a, Date |-> d]

\* min_amount_threshold: float = 0.01, in hundredths
min_amount_threshold == 1

\* the coercion turning a failure into 0 instead of NaN
to_numeric_zero(a) ==
    IF a.type \in {"int", "float", "numstr"} THEN [nan |-> a.nan, v |-> a.v]
    ELSE [nan |-> FALSE, v |-> 0]

\* pd.to_numeric(errors='coerce') of one cell
to_numeric(a) ==
    IF a.type \in {"int", "float", "numstr"} THEN [nan |-> a.nan, v |-> a.v]
    ELSE [nan |-> TRUE, v |-> 0]

\* validation that only warns (data_validation = False)
validate_dataframe_warn(df, required_cols) == ""

\* validation that takes a table without rows for a valid one
validate_dataframe_rows(df, required_cols) ==
    IF ~(required_cols \subseteq df.columns) THEN "ValueError" ELSE ""

\* ExpenseAnalyzer().validate_dataframe: the exception it raises, "" if none
validate_dataframe(df, required_cols) ==
    IF df.rows = <<>> \/ df.columns = {} THEN "ValueError"
    ELSE IF ~(required_cols \subseteq df.columns) THEN "ValueError"
    ELSE ""

\* df_clean['Amount'] = pd.to_numeric(...); dropna(subset=['Amount'])
CleanAmounts(rows) ==
    LET coerced == [i \in 1..Len(rows) |-> [rows[i] EXCEPT !.Amount = to_numeric(@)]]
        Valid(r) == ~r.Amount.nan
    IN  SelectSeq(coerced, Valid)

\* the expenses kept with their sign
ExpensesOnlySigned(rows) ==
    LET Negative(r) == r.Amount.v < 0
    IN  SelectSeq(rows, Negative)

\* df_clean[df_clean['Amount'] < 0], then Amount.abs()
ExpensesOnly(rows) ==
    LET Negative(r) == r.Amount.v < 0
        kept == SelectSeq(rows, Negative)
    IN  [i \in 1..Len(kept) |-> [kept[i] EXCEPT !.Amount.v = Abs(@)]]

\* df_clean[df_clean['Amount'] >= min_amount_threshold]
AtLeast(rows, threshold) ==
    LET Enough(r) == r.Amount.v >= threshold
    IN  SelectSeq(rows, Enough)

\* the sum of Amount over the rows of the positions S
SumRows(rows, S) == SumFn([i \in S |-> rows[i].Amount.v], S)

\* groupby('Category')['Amount'].sum(): the total of each category; rows
\* whose Category is None belong to no group
GroupByCategory(rows) ==
    LET keys == {rows[i].Category.s : i \in {j \in 1..Len(rows) : ~rows[j].Category.nan}}
    IN  [c \in keys |->
           SumRows(rows, {i \in 1..Len(rows) :
                             ~rows[i].Category.nan /\ rows[i].Category.s = c})]

Entry(key, total) == [key |-> key, total |-> total]

\* the orders of the keys of a Series
Orders(series) ==
    {o \in [1..Cardinality(DOMAIN series) -> DOMAIN series] :
        \A i, j \in DOMAIN o : i # j => o[i] # o[j]}

\* the Series sorted with ascending=True
SortValuesAscending(series) ==
    {[i \in DOMAIN o |-> Entry(o[i], series[o[i]])] :
        o \in {p \in Orders(series) :
                  \A i \in 1..(Len(p) - 1) : series[p[i]] <= series[p[i + 1]]}}

\* sort_values(ascending=False): the default sort is not stable, so each
\* order of the entries with non-increasing totals is a possible result
SortValues(series) ==
    {[i \in DOMAIN o |-> Entry(o[i], series[o[i]])] :
        o \in {p \in Orders(series) :
                  \A i \in 1..(Len(p) - 1) : series[p[i]] >= series[p[i + 1]]}}

Raised(e) == [raised |-> e, result |-> <<>>]
Returned(series) == [raised |-> "", result |-> series]

\* the possible outcomes of analyze_expenses_by_category
analyze_expenses_by_category(df, include_income, threshold) ==
    IF validate_dataframe(df, {"Category", "Amount"}) # ""
    THEN {Raised(validate_dataframe(df, {"Category", "Amount"}))}
    ELSE LET clean == CleanAmounts(df.rows)
             typed == IF include_income THEN clean ELSE ExpensesOnly(clean)
             kept == AtLeast(typed, threshold)
         IN  IF kept = <<>> THEN {Returned(<<>>)}
             ELSE {Returned(r) : r \in SortValues(GroupByCategory(kept))}

\* common_formats (analyzer.py:308): the separator and the order of fields
common_formats ==
    <<[sep |-> "-", y |-> 1, m |-> 2, d |-> 3],
      [sep |-> "/", y |-> 3, m |-> 1, d |-> 2],
      [sep |-> "/", y |-> 3, m |-> 2, d |-> 1],
      [sep |-> "/", y |-> 1, m |-> 2, d |-> 3],
      [sep |-> "-", y |-> 3, m |-> 1, d |-> 2]>>

\* the three fields of a text around two separators, <<>> if there are not two
Split3(s, sep) ==
    LET p == Find(s, sep, 1)
        q == IF p = 0 THEN 0 ELSE Find(s, sep, p + 1)
    IN  IF p = 0 \/ q = 0 THEN <<>>
        ELSE <<SubSeq(s, 1, p - 1), SubSeq(s, p + 1, q - 1), SubSeq(s, q + 1, Len(s))>>

\* pd.to_datetime(text, format=fmt, errors='coerce') of one cell
ParseFormat(s, fmt) ==
    LET t == Split3(s, fmt.sep)
    IN  IF t = <<>> THEN NoDate
        ELSE IF /\ Len(t[fmt.y]) = 4 /\ AllDigits(t[fmt.y])
                /\ MonthToken(t[fmt.m]) /\ DayToken(t[fmt.d])
        THEN MkDate(NumVal(t[fmt.y]), NumVal(t[fmt.m]), NumVal(DayDigits(t[fmt.d])))
        ELSE NoDate

\* strategy 3: the first of the common formats, from the k-th, that parses
RECURSIVE TryFormats(_, _)
TryFormats(s, k) ==
    IF k > Len(common_formats) THEN NoDate
    ELSE IF ParseFormat(s, common_formats[k]) # NoDate
    THEN ParseFormat(s, common_formats[k])
    ELSE TryFormats(s, k + 1)

\* strategy 3 tabulated over the date texts
TryFormatsOf == [s \in DateTexts |-> TryFormats(s, 1)]

\* pd.to_datetime of a column depends on the installed pandas: 1.x reads each
\* cell by itself, 2.x guesses one format from the first cell and reads every
\* cell with it, falling back to reading each cell when it guesses none
Builds == {"cell", "column"}

\* the format guessed from a cell, its position in common_formats, 0 if none
guess_datetime_format(s) ==
    IF to_datetimeOf[s] = NoDate THEN 0
    ELSE IF Find(s, "-", 1) = 5 THEN 1
    ELSE IF ParseFormat(s, common_formats[2]) # NoDate THEN 2
    ELSE 3

\* the two tabulated over the date texts
ParseFormatOf ==
    [s \in DateTexts |-> [k \in DOMAIN common_formats |-> ParseFormat(s, common_formats[k])]]
guess_datetime_formatOf == [s \in DateTexts |-> guess_datetime_format(s)]

\* strategy 2: pd.to_datetime(df_clean['Date'], errors='coerce')
AutomaticParsing(dates, build) ==
    LET f == IF build = "column" /\ dates # <<>>
             THEN guess_datetime_formatOf[dates[1]] ELSE 0
    IN  [i \in 1..Len(dates) |->
           IF f = 0 THEN to_datetimeOf[dates[i]] ELSE ParseFormatOf[dates[i]][f]]

\* the common formats never tried
Strategy3Skipped(dates, auto) == auto

\* strategy 3: each cell still unparsed is read with the common formats
Strategy3(dates, auto) ==
    [i \in 1..Len(dates) |->
       IF auto[i] # NoDate THEN auto[i] ELSE TryFormatsOf[dates[i]]]

\* the rows with a parsed date, Date replaced by it
ParsedDates(rows, build) ==
    LET dates == [i \in 1..Len(rows) |-> rows[i].Date]
        Date_Parsed_col == Strategy3(dates, AutomaticParsing(dates, build))
        parsed == [i \in 1..Len(rows) |-> [rows[i] EXCEPT !.Date = Date_Parsed_col[i]]]
        Valid(r) == r.Date # NoDate
    IN  SelectSeq(parsed, Valid)

\* Date_Parsed.dt.to_period('M'): the months since year 0
to_period(dt) == dt.y * 12 + (dt.m - 1)

\* str of a monthly Period: YYYY-MM
PeriodStr(p) == Pad(p \div 12, 4) \o <<"-">> \o Pad((p % 12) + 1, 2)

\* groupby('Month')['Amount'].sum()
GroupByMonth(rows) ==
    [p \in {to_period(rows[i].Date) : i \in 1..Len(rows)} |->
        SumRows(rows, {i \in 1..Len(rows) : to_period(rows[i].Date) = p})]

\* the Series by descending key
sort_index_descending(series) ==
    LET o == CHOOSE p \in Orders(series) : \A i \in 1..(Len(p) - 1) : p[i] > p[i + 1]
    IN  [i \in DOMAIN o |-> Entry(o[i], series[o[i]])]

\* sort_index(): the Series by ascending key
sort_index(series) ==
    LET o == CHOOSE p \in Orders(series) : \A i \in 1..(Len(p) - 1) : p[i] < p[i + 1]
    IN  [i \in DOMAIN o |-> Entry(o[i], series[o[i]])]

\* the month keys of the totals as strings (monthly_totals.index.astype(str))
MonthlyTotals(monthly_totals) ==
    Returned([i \in DOMAIN monthly_totals |->
                Entry(PeriodStr(monthly_totals[i].key), monthly_totals[i].total)])

\* the grouping of the rows left after the income filter
MonthlyOfTyped(typed) ==
    IF typed = <<>> THEN Returned(<<>>)
    ELSE MonthlyTotals(sort_index(GroupByMonth(typed)))

\* the steps after the date parsing, on the rows whose date parsed
MonthlyOfDated(dated, include_income) ==
    IF dated = <<>> THEN Returned(<<>>)
    ELSE MonthlyOfTyped(IF include_income THEN dated ELSE ExpensesOnly(dated))

\* the outcome of analyze_monthly_trend (date_format not given) on a build
monthly_trend_on(df, include_income, build) ==
    IF validate_dataframe(df, {"Date", "Amount"}) # ""
    THEN Raised(validate_dataframe(df, {"Date", "Amount"}))
    ELSE MonthlyOfDated(ParsedDates(CleanAmounts(df.rows), build), include_income)

\* the possible outcomes of analyze_monthly_trend
analyze_monthly_trend(df, include_income) ==
    {monthly_trend_on(df, include_income, build) : build \in Builds}

\* the caller's table after a call that took every amount's magnitude in it
CallerFrameInPlace(df) ==
    [df EXCEPT !.rows = [i \in 1..Len(df.rows) |->
        IF df.rows[i].Amount.type \in {"int", "float", "numstr"}
        THEN [df.rows[i] EXCEPT !.Amount.v = Abs(@)] ELSE df.rows[i]]]

\* the caller's table after a call: both functions work on df.copy()
\* (analyzer.py:90, 278) and leave the table they were given as it was
CallerFrame(df) == df

\* a Series as the mapping from its keys to its totals
AsSeries(result) ==
    [k \in {result[i].key : i \in DOMAIN result} |->
        (CHOOSE e \in {result[i] : i \in DOMAIN result} : e.key = k).total]

\* sort_values is a function of the Series it sorts: two sorts of the same
\* Series by one build give the same order, ties included
SameSort(first, second) ==
    AsSeries(first.result) = AsSeries(second.result) => first.result = second.result

\* Series.sum() and len() of a result
SeriesSum(series) == SumFn([i \in DOMAIN series |-> series[i].total], DOMAIN series)

\* Series.mean(): the sum over the count, kept as the two numbers
Mean(series) == [sum |-> SeriesSum(series), count |-> Len(series)]
ZeroMean == [sum |-> 0, count |-> 1]

\* df_numeric[df_numeric['Amount'] > 0]['Amount'].sum()
TotalIncome(rows) ==
    LET amounts == [i \in 1..Len(rows) |-> to_numeric(rows[i].Amount)]
        S == {i \in 1..Len(rows) : ~amounts[i].nan /\ amounts[i].v > 0}
    IN  SumFn([i \in S |-> amounts[i].v], S)

\* return {"error": str(e)}; the text is kept as the exception it is of
ErrorReport(e) == [error |-> e]

\* the report built from the two summaries (analyzer.py:431-461)
Report(df, category_summary, monthly_summary) ==
    [total_records |-> Len(df.rows),
     total_expenses |-> SeriesSum(category_summary),
     total_income |-> TotalIncome(df.rows),
     net_savings |-> TotalIncome(df.rows) - SeriesSum(category_summary),
     top_expense_category |-> IF category_summary # <<>>
                              THEN category_summary[1].key ELSE "N/A",
     categories_count |-> Len(category_summary),
     months_covered |-> Len(monthly_summary),
     avg_monthly_expense |-> IF monthly_summary # <<>>
                             THEN Mean(monthly_summary) ELSE ZeroMean,
     expense_by_category |-> category_summary,
     monthly_expenses |-> monthly_summary]

\* the report without its try, an exception of the summaries leaving it
generate_expense_summary_report_no_try(df) ==
    {IF c.raised # "" THEN [raised |-> c.raised, report |-> <<>>]
     ELSE IF m.raised # "" THEN [raised |-> m.raised, report |-> <<>>]
     ELSE [raised |-> "", report |-> Report(df, c.result, m.result)] :
        c \in analyze_expenses_by_category(df, FALSE, min_amount_threshold),
        m \in analyze_monthly_trend(df, FALSE)}

\* the possible outcomes of generate_expense_summary_report: every exception
\* raised inside the try is caught and returned as the error report
generate_expense_summary_report(df) ==
    {[raised |-> "",
      report |-> IF c.raised # "" THEN ErrorReport(c.raised)
                 ELSE IF m.raised # "" THEN ErrorReport(m.raised)
                 ELSE Report(df, c.result, m.result)] :
        c \in analyze_expenses_by_category(df, FALSE, min_amount_threshold),
        m \in analyze_monthly_trend(df, FALSE)}

\* the rows and the tables handed to the functions
AnaRows ==
    {Row(Cat("Food"), FloatAmt(-1000), D_2024_01_10),
     Row(Cat("Food"), FloatAmt(-2000), D_2023_12_31),
     Row(Cat("Gas"), IntAmt(-500), D_1_10_2024),
     Row(Cat("Gas"), FloatAmt(-1000), D_2024_1_5),
     Row(Cat("Income"), FloatAmt(2000), D_2024_01_10),
     Row(Cat("Food"), StrAmt, D_2024_01_10),
     Row(Cat("Gas"), NumStrAmt(-500), D_not_a_date),
     Row(NoneCat, FloatAmt(-1000), D_2024_02_30)}

ColumnSets ==
    {{"Category", "Amount", "Date"}, {"Category", "Amount"}, {"Amount", "Date"},
     {"Category", "Date"}}

Thresholds == {min_amount_threshold, 1500}

Tables(n) == UNION {[1..k -> AnaRows] : k \in 0..n}

\* tables with every column, and short tables lacking one
Frames ==
    [columns : {{"Category", "Amount", "Date"}}, rows : Tables(MaxRows)]
    \cup [columns : ColumnSets, rows : Tables(1)]
    \cup {NoFrame}

\* a behaviour is a table and one call, or one pair of calls, on it
InitAna ==
    /\ expenses = <<>>
    /\ sqlite_sequence = 0
    /\ now = 0
    /\ imp = Idle
    /\ last = [op |-> "init"]
    /\ session = NoSession
    /\ frame \in Frames
    /\ ai = NoQuery
    /\ conn = Closed

ByCategory(include_income, threshold) ==
    /\ last.op = "init"
    /\ \E out \in analyze_expenses_by_category(frame, include_income, threshold) :
          last' = [op |-> "by_category", raised |-> out.raised, result |-> out.result,
                   include_income |-> include_income, threshold |-> threshold]
    /\ UNCHANGED <<expenses, sqlite_sequence, now, imp, session, frame, ai, conn>>

MonthlyTrend(include_income) ==
    /\ last.op = "init"
    /\ \E out \in analyze_monthly_trend(frame, include_income) :
          last' = [op |-> "monthly", raised |-> out.raised, result |-> out.result,
                   include_income |-> include_income]
    /\ UNCHANGED <<expenses, sqlite_sequence, now, imp, session, frame, ai, conn>>

\* two calls, one after the other, on the table the caller holds
ByCategoryTwice(include_income, threshold) ==
    /\ last.op = "init"
    /\ \E first \in analyze_expenses_by_category(frame, include_income, threshold) :
       \E second \in analyze_expenses_by_category(CallerFrame(frame),
                                                   include_income, threshold) :
          /\ SameSort(first, second)
          /\ last' = [op |-> "by_category_twice", first |-> first, second |-> second,
                      include_income |-> include_income, threshold |-> threshold]
    /\ frame' = CallerFrame(CallerFrame(frame))
    /\ UNCHANGED <<expenses, sqlite_sequence, now, imp, session, ai, conn>>

MonthlyTrendTwice(include_income) ==
    /\ last.op = "init"
    /\ \E build \in Builds :
          last' = [op |-> "monthly_twice",
                   first |-> monthly_trend_on(frame, include_income, build),
                   second |-> monthly_trend_on(CallerFrame(frame), include_income, build),
                   include_income |-> include_income]
    /\ frame' = CallerFrame(CallerFrame(frame))
    /\ UNCHANGED <<expenses, sqlite_sequence, now, imp, session, ai, conn>>

SummaryReport ==
    /\ last.op = "init"
    /\ \E out \in generate_expense_summary_report(frame) :
          last' = [op |-> "summary", raised |-> out.raised, report |-> out.report]
    /\ UNCHANGED <<expenses, sqlite_sequence, now, imp, session, frame, ai, conn>>

NextAna ==
    \/ \E i \in BOOLEAN, t \in Thresholds : ByCategory(i, t)
    \/ \E i \in BOOLEAN : MonthlyTrend(i)
    \/ SummaryReport
    \/ \E i \in BOOLEAN, t \in Thresholds : ByCategoryTwice(i, t)
    \/ \E i \in BOOLEAN : MonthlyTrendTwice(i)

SpecAna == InitAna /\ [][NextAna]_vars

(***************************************************************************)
(* The AI query (src/app/llm_helper.py query_expense_ai and                *)
(* src/app/advanced_llm_helper.py advanced_query_expense_ai).  ai is the   *)
(* query at work: where it stands, what it was asked, the chat requests it *)
(* has sent to the Ollama server with the outcome of each, and what it     *)
(* returned.  A text built by an f-string is the sequence of the texts it  *)
(* is built from; the model server is the environment, which answers a     *)
(* request or fails it.                                                    *)
(***************************************************************************)
None == "None"

Modes == {"basic", "advanced"}
ModelChoices == {"mistral", "llama3", "non-existent-model"}
Queries == {"How much did I spend?"}
Contexts == {"Total Expenses: $50.00", "No expense data available."}
Failures == {"timed out", "connection refused", "model not found"}
Outcomes == {"ok"} \cup Failures

\* get_full_model_name: the listed name with its tag, the base name when
\* the server lists no such model, base:latest when listing fails
get_full_model_name(base_name, listing) ==
    CASE listing = "listed" -> <<base_name, ":7b">>
      [] listing = "absent" -> <<base_name>>
      [] OTHER -> <<base_name, ":latest">>

Listings == {"listed", "absent", "failed"}

\* the alternate taken to be the chosen model itself
fallback_model_same(model_choice) == model_choice

\* fallback_model = 'llama3' if model_choice == 'mistral' else 'mistral'
fallback_model(model_choice) ==
    IF model_choice = "mistral" THEN "llama3" ELSE "mistral"

\* the user message of a chat request
UserMessage(context, query) == <<"Data:", context, "User Question:", query>>

\* the message returned when the import of ollama fails
ImportErrorMessage == <<"Error: Ollama package not installed.">>

\* error_msg of query_expense_ai (llm_helper.py:95-110)
error_msg(model_choice, e, fallback, e2) ==
    <<"AI Assistant Unavailable", "Primary model", model_choice, e,
      "Fallback model", fallback, e2>>

\* error_msg of advanced_query_expense_ai (advanced_llm_helper.py:496-510)
advanced_error_msg(query, advanced_context) ==
    <<"Advanced AI Assistant Unavailable", "Based on your query:", query,
      advanced_context>>

\* a request sent whatever the first request came to
NextAttemptAlways(pc, outcome) ==
    IF pc = "primary" THEN "fallback" ELSE "done"

\* where the query goes after an attempt: it returns after a request that
\* succeeded and after the fallback; the except of the first leads to the
\* fallback
NextAttempt(pc, outcome) ==
    IF pc = "primary" /\ outcome # "ok" THEN "fallback" ELSE "done"

Chat(model, base, context, query, outcome) ==
    [model |-> model, base |-> base, content |-> UserMessage(context, query),
     outcome |-> outcome]

\* the call up to its first request: import ollama, the prompts and, in
\* advanced mode, the context
AskAI(mode, query, context, model_choice, installed) ==
    /\ ai.pc \in {"idle", "done"}
    /\ ai' = [pc |-> IF installed THEN "primary" ELSE "done",
              mode |-> mode, query |-> query, context |-> context,
              model_choice |-> model_choice, installed |-> installed,
              requests |-> <<>>, e |-> "",
              ret |-> IF installed THEN <<>>
                      ELSE <<ImportErrorMessage, None>>]
    /\ UNCHANGED <<expenses, sqlite_sequence, now, imp, last, session, frame, conn>>

\* the primary model attempt
PrimaryAttempt(listing, outcome) ==
    /\ ai.pc = "primary"
    /\ LET full_model_name == get_full_model_name(ai.model_choice, listing)
           sent == Append(ai.requests,
                          Chat(full_model_name, ai.model_choice, ai.context,
                               ai.query, outcome))
       IN  ai' = IF outcome = "ok"
                 THEN [ai EXCEPT !.pc = NextAttempt("primary", outcome),
                                 !.requests = sent,
                                 !.ret = <<<<"response of", ai.model_choice>>,
                                           ai.model_choice>>]
                 ELSE [ai EXCEPT !.pc = NextAttempt("primary", outcome),
                                 !.requests = sent, !.e = outcome]
    /\ UNCHANGED <<expenses, sqlite_sequence, now, imp, last, session, frame, conn>>

\* the fallback attempt, in the except of the primary one
FallbackAttempt(listing, outcome) ==
    /\ ai.pc = "fallback"
    /\ LET fallback == fallback_model(ai.model_choice)
           full_fallback_name == get_full_model_name(fallback, listing)
           sent == Append(ai.requests,
                          Chat(full_fallback_name, fallback, ai.context,
                               ai.query, outcome))
       IN  ai' = [ai EXCEPT
                    !.pc = NextAttempt("fallback", outcome),
                    !.requests = sent,
                    !.ret = IF outcome = "ok"
                            THEN <<<<"response of", fallback>>, fallback>>
                            ELSE IF ai.mode = "basic"
                            THEN <<error_msg(ai.model_choice, ai.e, fallback, outcome),
                                   None>>
                            ELSE <<advanced_error_msg(ai.query, ai.context), None>>]
    /\ UNCHANGED <<expenses, sqlite_sequence, now, imp, last, session, frame, conn>>

NextAI ==
    \/ \E m \in Modes, q \in Queries, c \in Contexts, mc \in ModelChoices,
          installed \in BOOLEAN : AskAI(m, q, c, mc, installed)
    \/ \E l \in Listings, o \in Outcomes : PrimaryAttempt(l, o)
    \/ \E l \in Listings, o \in Outcomes : FallbackAttempt(l, o)

SpecAI == Init /\ [][NextAI]_vars

(***************************************************************************)
(* get_database_stats beside another session (database.py:315-344).  The   *)
(* call opens one connection and runs five SELECT statements on it; a      *)
(* SELECT begins no transaction, so each statement reads the table as the  *)
(* latest commit left it, and the insert, update or delete of another      *)
(* session, each a connection of its own that commits, may fall between    *)
(* two of them.  conn is the call at work: the number of the statement it  *)
(* is to run next, what the statements before returned, and the states of  *)
(* the table they read.                                                    *)
(***************************************************************************)
\* the five statements, in the order of the code
Statements == 5

\* what the k-th statement returns on a table
Select(k, tbl) ==
    CASE k = 1 -> Cardinality(DOMAIN tbl)
      [] k = 2 -> SqlSum(tbl, {id \in DOMAIN tbl : tbl[id].amount.v < 0})
      [] k = 3 -> SqlSum(tbl, {id \in DOMAIN tbl : tbl[id].amount.v > 0})
      [] k = 4 -> MinMaxDate(tbl)
      [] OTHER -> Cardinality({tbl[id].category : id \in DOMAIN tbl})

\* the returned dict, from what the statements returned
StatsDict(r) ==
    [total_records |-> r[1],
     total_expenses |-> Abs(r[2]),
     total_income |-> r[3],
     net_savings |-> r[3] + r[2],
     date_range |-> r[4],
     category_count |-> r[5]]

\* sqlite3.connect(self.db_path), conn.cursor()
StatsConnect ==
    /\ conn.pc = 0
    /\ conn' = [pc |-> 1, fetched |-> <<>>, read |-> {}]
    /\ UNCHANGED <<expenses, sqlite_sequence, now, imp, last, session, frame, ai>>

\* cursor.execute of the next statement and its fetchone
StatsSelect ==
    /\ conn.pc \in 1..Statements
    /\ conn' = [pc |-> conn.pc + 1,
                fetched |-> Append(conn.fetched, Select(conn.pc, expenses)),
                read |-> conn.read \cup {expenses}]
    /\ UNCHANGED <<expenses, sqlite_sequence, now, imp, last, session, frame, ai>>

\* return of the dict; the connection is left
StatsReturn ==
    /\ conn.pc = Statements + 1
    /\ last' = [op |-> "stats_return", raised |-> "",
                stats |-> StatsDict(conn.fetched), read |-> conn.read]
    /\ conn' = Closed
    /\ UNCHANGED <<expenses, sqlite_sequence, now, imp, session, frame, ai>>

NextConc ==
    \/ StatsConnect
    \/ StatsSelect
    \/ StatsReturn
    \/ \E tx \in GoodTx : Insert(tx)
    \/ \E id \in Ids, tx \in GoodTx : Update(id, tx)
    \/ \E id \in Ids : Delete(id)

SpecConc == Init /\ [][NextConc]_vars


(***************************************************************************)
(* What the claims speak of.                                               *)
(***************************************************************************)
Rows == {expenses[i] : i \in DOMAIN expenses}

\* a text that denotes a calendar date in no reading
NotACalendarDate(s) == strptimeOf[s] = NoDate /\ to_datetimeOf[s] = NoDate

\* a Python number
IsNumber(a) == a.type \in {"int", "float"}

\* arguments that the validation of insert and update accepts
PassesValidation(tx) ==
    /\ strptimeOf[tx.date] # NoDate
    /\ tx.category # ""
    /\ IsNumber(tx.amount)

\* a == b for two Python numbers
NumEq(a, b) == IsNumber(a) /\ IsNumber(b) /\ ~a.nan /\ ~b.nan /\ a.v = b.v

\* every row but the one with this id is the same before and after
OthersUnchanged(id) ==
    \A i \in DOMAIN expenses \ {id} : i \in DOMAIN expenses' /\ expenses'[i] = expenses[i]

\* C1: after any sequence of insert, update, delete and bulk import every
\* stored row has a date that is a valid calendar date, an amount that is a
\* number and a category that is not empty, and rows are keyed by distinct
\* ids that the sequence has assigned.
C1_StoredRowsValid ==
    \A id \in DOMAIN expenses :
        LET r == expenses[id]
            dt == strptimeOf[r.date]
        IN  /\ r.id = id /\ id >= 1 /\ id <= sqlite_sequence
            /\ \A o \in DOMAIN expenses : expenses[o].id = r.id => o = id
            /\ ValidYMD(dt.y, dt.m, dt.d)
            /\ r.amount.type = "float" /\ ~r.amount.nan
            /\ r.category # ""

\* C1, the case: two rows are stored, one of them written by update_expense
C1_Witness ==
    /\ Cardinality(DOMAIN expenses) = 2
    /\ last.op = "update" /\ last.ok
    /\ \E id \in DOMAIN expenses : expenses[id].date = D_2024_1_5

\* C2: an insert whose date is no calendar date, whose category is empty or
\* whose amount is no number raises the validation error (ValueError) and
\* leaves the table and the id sequence as they were.
C2_InsertRejects ==
    [][\A tx \in TxInputs :
         (/\ last'.op = "insert"
          /\ (NotACalendarDate(tx.date) \/ tx.category = "" \/ ~IsNumber(tx.amount))
          /\ Insert(tx))
         => (/\ last'.raised = "ValueError"
             /\ expenses' = expenses
             /\ sqlite_sequence' = sqlite_sequence)]_vars

\* C2, the case: an insert into a non-empty table was rejected
C2_Witness ==
    /\ last.op = "insert" /\ last.raised = "ValueError"
    /\ DOMAIN expenses # {}

\* C3 as stated: an update of an id that is not in the table returns false
\* and leaves the table unchanged, whatever its other arguments.
C3_UpdateMissingReturnsFalse ==
    [][\A id \in Ids, tx \in TxInputs :
         (last'.op = "update" /\ last'.id = id /\ id \notin DOMAIN expenses /\ Update(id, tx))
         => (last'.raised = "" /\ ~last'.ok /\ expenses' = expenses)]_vars

\* C3 as amended: an update of an id that is not in the table leaves the
\* table unchanged whatever its arguments, never returns true, and returns
\* false when its arguments pass validation.
C3_UpdateMissingUnchanged ==
    [][\A id \in Ids, tx \in TxInputs :
         (last'.op = "update" /\ last'.id = id /\ id \notin DOMAIN expenses /\ Update(id, tx))
         => (/\ expenses' = expenses
             /\ sqlite_sequence' = sqlite_sequence
             /\ ~last'.ok
             /\ PassesValidation(tx) => last'.raised = "")]_vars

\* C3, the case: an update of a missing id returned false on a non-empty table
C3_Witness ==
    /\ last.op = "update" /\ last.id \notin DOMAIN expenses
    /\ last.raised = "" /\ ~last.ok
    /\ DOMAIN expenses # {}

\* C4 as stated: update and delete of an id that is not in the table never
\* raise and return false, whatever the other arguments of update.
C4_MissingIdNeverRaises ==
    [][/\ \A id \in Ids, tx \in TxInputs :
            (last'.op = "update" /\ last'.id = id /\ id \notin DOMAIN expenses /\ Update(id, tx))
            => (last'.raised = "" /\ ~last'.ok)
       /\ \A id \in Ids :
            (last'.op = "delete" /\ last'.id = id /\ id \notin DOMAIN expenses /\ Delete(id))
            => (last'.raised = "" /\ ~last'.ok)]_vars

\* C4 as amended: delete of an id that is not in the table never raises and
\* returns false; update of such an id returns false without raising when
\* its arguments pass validation, and raises the validation error when they
\* do not.
C4_MissingIdReported ==
    [][/\ \A id \in Ids, tx \in TxInputs :
            (last'.op = "update" /\ last'.id = id /\ id \notin DOMAIN expenses /\ Update(id, tx))
            => IF PassesValidation(tx)
               THEN last'.raised = "" /\ ~last'.ok
               ELSE last'.raised = "ValueError"
       /\ \A id \in Ids :
            (last'.op = "delete" /\ last'.id = id /\ id \notin DOMAIN expenses /\ Delete(id))
            => (last'.raised = "" /\ ~last'.ok)]_vars

\* C4, the case: an update of a missing id raised the validation error
C4_Witness ==
    /\ last.op = "update" /\ last.id \notin DOMAIN expenses
    /\ last.raised = "ValueError"

\* C5: an update of an id that is in the table, with arguments that pass
\* validation, returns true, sets the row's date, amount, category and
\* description to the arguments, and leaves the row's id and created_at and
\* every other row as they were.
C5_UpdateReplacesFields ==
    [][\A id \in Ids, tx \in GoodTx :
         (last'.op = "update" /\ last'.id = id /\ id \in DOMAIN expenses /\ Update(id, tx))
         => (/\ last'.raised = "" /\ last'.ok
             /\ DOMAIN expenses' = DOMAIN expenses
             /\ expenses'[id].date = tx.date
             /\ NumEq(expenses'[id].amount, tx.amount)
             /\ expenses'[id].category = tx.category
             /\ expenses'[id].description = tx.description
             /\ expenses'[id].id = id
             /\ expenses'[id].created_at = expenses[id].created_at
             /\ OthersUnchanged(id))]_vars

\* C5, the case: a row created at an earlier tick was updated while another
\* row is stored
C5_Witness ==
    /\ last.op = "update" /\ last.ok
    /\ last.id \in DOMAIN expenses
    /\ expenses[last.id].created_at < now
    /\ expenses[last.id].updated_at = now
    /\ Cardinality(DOMAIN expenses) = 2

\* C6: a delete of an id that is in the table returns true and removes that
\* row and no other, so that get_by_id of the id finds nothing; a delete of
\* an id that is not in the table returns false and leaves the table as it
\* was.
C6_DeleteRemovesOneRow ==
    [][\A id \in Ids :
         (last'.op = "delete" /\ last'.id = id /\ Delete(id))
         => IF id \in DOMAIN expenses
            THEN /\ last'.ok
                 /\ DOMAIN expenses' = DOMAIN expenses \ {id}
                 /\ OthersUnchanged(id)
                 /\ ~get_expense_by_id(expenses', id).found
            ELSE ~last'.ok /\ expenses' = expenses]_vars

\* C6, the case: a row was deleted and another row is still stored
C6_Witness ==
    /\ last.op = "delete" /\ last.ok
    /\ last.id \notin DOMAIN expenses
    /\ \E i \in DOMAIN expenses : i > last.id

\* C7: get_by_id of the id an insert returned yields the inserted date,
\* amount, category and description under that id, and goes on yielding the
\* same record across every call that is not an update or delete of that id.
C7_InsertThenGet ==
    [][/\ \A tx \in TxInputs :
            (last'.op = "insert" /\ last'.raised = "" /\ Insert(tx))
            => LET rec == get_expense_by_id(expenses', last'.ret)
               IN  /\ rec.found
                   /\ rec.id = last'.ret
                   /\ rec.date = tx.date
                   /\ NumEq(rec.amount, tx.amount)
                   /\ rec.category = tx.category
                   /\ rec.description = tx.description
       /\ \A id \in DOMAIN expenses :
            ~(last'.op \in {"update", "delete"} /\ last'.id = id)
            => get_expense_by_id(expenses', id) = get_expense_by_id(expenses, id)]_vars

\* C7, the case: get_by_id returned the row of the latest id, which holds an
\* inserted date that is not zero padded
C7_Witness ==
    /\ last.op = "get" /\ last.rec.found
    /\ last.rec.id = sqlite_sequence
    /\ last.rec.date = D_2024_1_5
    /\ last.rec.description = "Salary"

\* a raw row with a parseable date, a numeric amount and a category
ParseableDate(rd) ==
    rd.kind = "Timestamp" \/ (rd.kind = "str" /\ to_datetimeOf[rd.s] # NoDate)

RawValid(raw) ==
    /\ ParseableDate(raw.date)
    /\ IsNumber(raw.amount) /\ ~raw.amount.nan
    /\ raw.category # ""

\* the calendar date of a parseable raw date
RawDate(rd) == IF rd.kind = "Timestamp" THEN rd.ts ELSE to_datetimeOf[rd.s]

CalendarOrdered(df) ==
    \A i \in 1..(Len(df) - 1) :
        \/ DateKey(df[i].date) > DateKey(df[i + 1].date)
        \/ DateKey(df[i].date) = DateKey(df[i + 1].date) /\ df[i].id > df[i + 1].id

\* C9: whatever the filters, fetch returns its rows by calendar date
\* descending and, within a date, by id descending.
C9_FetchCalendarOrdered ==
    \A l \in FetchLimits, c \in FetchCategories, s \in FetchDates, e \in FetchDates :
        CalendarOrdered(fetch_expenses(expenses, l, c, s, e))

\* a stored row satisfies the filters of fetch that were supplied: the
\* category is equal, the stored date text is not below start_date and not
\* above end_date in the store's comparison
Satisfies(r, c, s, e) ==
    /\ c # "" => r.category = c
    /\ s # <<>> => TextCmpOf[r.date][s] >= 0
    /\ e # <<>> => TextCmpOf[r.date][e] <= 0

\* a fetched row satisfies the session's filters that were set
SatisfiesUi(r, f) ==
    /\ f.date_range.set => /\ DateKey(r.date) >= DateKey(f.date_range.lo)
                           /\ DateKey(r.date) <= DateKey(f.date_range.hi)
    /\ f.categories # {} => r.category \in f.categories
    /\ f.amount_range.set => /\ Abs(r.amount.v) >= f.amount_range.lo
                             /\ Abs(r.amount.v) <= f.amount_range.hi

FrameIds(df) == {df[i].id : i \in 1..Len(df)}

\* C10: fetch without a limit returns, once each, exactly the stored rows
\* that satisfy every filter supplied, and all stored rows when none is
\* supplied; the session's filters applied to a fetched frame keep exactly
\* the rows that satisfy every filter that is set.
C10_FiltersConjoined ==
    /\ \A c \in FetchCategories \cup {"Income"}, s \in FetchDates, e \in FetchDates :
          LET df == fetch_expenses(expenses, 0, c, s, e)
              want == {id \in DOMAIN expenses : Satisfies(expenses[id], c, s, e)}
          IN  FrameIds(df) = want /\ Len(df) = Cardinality(want)
    /\ FrameIds(fetch_expenses(expenses, 0, "", <<>>, <<>>)) = DOMAIN expenses
    /\ LET all == fetch_expenses(expenses, 0, "", <<>>, <<>>)
       IN  \A f \in UiFilters :
             LET df == apply_filters_to_dataframe(all, f)
                 want == {i \in 1..Len(all) : SatisfiesUi(all[i], f)}
             IN  /\ FrameIds(df) = {all[i].id : i \in want}
                 /\ Len(df) = Cardinality(want)

\* C10, the case: two rows are stored, a fetch returned no row, as the fetch
\* with a category and a start date does, while the category alone and the
\* start date alone each select one row and no filter selects both
C10_Witness ==
    /\ last.op = "fetch" /\ last.df = <<>>
    /\ Cardinality(DOMAIN expenses) = 2
    /\ fetch_expenses(expenses, 0, "Food", D_2024_1_5, <<>>) = <<>>
    /\ Len(fetch_expenses(expenses, 0, "Food", <<>>, <<>>)) = 1
    /\ Len(fetch_expenses(expenses, 0, "", D_2024_1_5, <<>>)) = 1
    /\ Len(fetch_expenses(expenses, 0, "", <<>>, <<>>)) = 2

\* date and amount bounds below and above every stored value
EarlyDate == MkDate(2024, 1, 1)
LateDate == MkDate(2024, 1, 31)
BigAmount == Abs(-50) + Abs(20)

\* row id of the table is in the frame when the table is fetched with the
\* date bounds s and e
Fetched(id, s, e) == id \in FrameIds(fetch_expenses(expenses, 0, "", s, e))

\* row i of the unfiltered frame is kept by the session's filters f
Kept(i, f) ==
    LET all == fetch_expenses(expenses, 0, "", <<>>, <<>>)
    IN  all[i].id \in FrameIds(apply_filters_to_dataframe(all, f))

DateOnly(lo, hi) ==
    [date_range |-> Range(lo, hi), categories |-> {}, amount_range |-> NoRange]

AmountOnly(lo, hi) ==
    [date_range |-> NoDateRange, categories |-> {}, amount_range |-> Range(lo, hi)]

\* a row whose value equals the lower bound of a range is returned
LowerBoundIncluded ==
    /\ \A id \in DOMAIN expenses : Fetched(id, expenses[id].date, <<>>)
    /\ \A i \in 1..Len(fetch_expenses(expenses, 0, "", <<>>, <<>>)) :
          LET r == fetch_expenses(expenses, 0, "", <<>>, <<>>)[i]
          IN  /\ Kept(i, DateOnly(r.date, LateDate))
              /\ Kept(i, AmountOnly(Abs(r.amount.v), BigAmount))

\* C11 as stated: the date and amount ranges are half open: a row whose
\* value equals the lower bound is returned and a row whose value equals
\* the upper bound is not.
C11_RangesHalfOpen ==
    /\ LowerBoundIncluded
    /\ \A id \in DOMAIN expenses : ~Fetched(id, <<>>, expenses[id].date)
    /\ \A i \in 1..Len(fetch_expenses(expenses, 0, "", <<>>, <<>>)) :
          LET r == fetch_expenses(expenses, 0, "", <<>>, <<>>)[i]
          IN  /\ ~Kept(i, DateOnly(EarlyDate, r.date))
              /\ ~Kept(i, AmountOnly(0, Abs(r.amount.v)))

\* C11 as amended: the date and amount ranges are closed: a row whose value
\* equals the lower bound is returned and so is a row whose value equals the
\* upper bound, in fetch and in the session's filters alike.
C11_RangesClosed ==
    /\ LowerBoundIncluded
    /\ \A id \in DOMAIN expenses : Fetched(id, <<>>, expenses[id].date)
    /\ \A i \in 1..Len(fetch_expenses(expenses, 0, "", <<>>, <<>>)) :
          LET r == fetch_expenses(expenses, 0, "", <<>>, <<>>)[i]
          IN  /\ Kept(i, DateOnly(EarlyDate, r.date))
              /\ Kept(i, AmountOnly(0, Abs(r.amount.v)))

\* C11, the case: two rows of different dates are stored and a fetch
\* returned one row, as the fetch does whose end_date is that row's date
C11_Witness ==
    /\ last.op = "fetch" /\ Len(last.df) = 1
    /\ Cardinality(DOMAIN expenses) = 2
    /\ \E id \in DOMAIN expenses :
          /\ last.df[1].id = id
          /\ last.df = fetch_expenses(expenses, 0, "", <<>>, expenses[id].date)
          /\ \E o \in DOMAIN expenses : expenses[o].date # expenses[id].date

\* the sum of |amount| over the rows on one side of zero
SumOfMagnitudes(S) == SumFn([id \in S |-> Abs(expenses[id].amount.v)], S)

\* C12: stats returns count = number of stored rows, total_expense = sum of
\* |amount| over the rows with amount < 0, total_income = sum of amount over
\* the rows with amount > 0, net = total_income - total_expense and
\* category_count = number of distinct categories; on an empty table the
\* sums are zero and the date bounds are absent.
C12_StatsAggregates ==
    last.op = "stats" =>
        LET st == last.stats
            neg == {id \in DOMAIN expenses : expenses[id].amount.v < 0}
            pos == {id \in DOMAIN expenses : expenses[id].amount.v > 0}
        IN  /\ last.raised = ""
            /\ st.total_records = Cardinality(DOMAIN expenses)
            /\ st.total_expenses = SumOfMagnitudes(neg)
            /\ st.total_income = SumOfMagnitudes(pos)
            /\ st.net_savings = st.total_income - st.total_expenses
            /\ \E cs \in SUBSET {"Food", "Income"} :
                  /\ \A c \in cs : \E id \in DOMAIN expenses : expenses[id].category = c
                  /\ \A id \in DOMAIN expenses : expenses[id].category \in cs
                  /\ st.category_count = Cardinality(cs)
            /\ DOMAIN expenses = {} =>
                  /\ st.total_expenses = 0 /\ st.total_income = 0 /\ st.net_savings = 0
                  /\ st.date_range.none

\* C12, the case: stats of a table holding an expense of 50 and an income of
\* 20 returned 50, 20, a net of -30 and a count of 2
C12_Witness ==
    /\ last.op = "stats"
    /\ last.stats.total_records = 2
    /\ last.stats.total_expenses = 50
    /\ last.stats.total_income = 20
    /\ last.stats.net_savings = -30
    /\ last.stats.category_count = 2
    /\ ~last.stats.date_range.none

\* C13: confirming Delete All Data destroys every transaction: afterwards
\* the store is empty (fetch returns no row, stats counts 0), the number of
\* deleted records is reported and the filters are reset to none.
C13_DeleteAllEmptiesStore ==
    last.op = "delete_all" =>
        /\ fetch_expenses(expenses, 0, "", <<>>, <<>>) = <<>>
        /\ get_database_stats(expenses).total_records = 0
        /\ last.shown = "success"
        /\ session.filters = NoFilters

\* C14: insert_expense accepts the amount zero, while the manual entry form
\* submitted with the amount 0 or with no category shows an error and
\* leaves the table and the id sequence as they were.
C14_ManualEntryRejectsZero ==
    [][/\ \A tx \in AppTx :
            (last'.op = "insert" /\ tx.amount.v = 0 /\ Insert(tx))
            => /\ last'.raised = ""
               /\ DOMAIN expenses' = DOMAIN expenses \cup {last'.ret}
               /\ last'.ret \notin DOMAIN expenses
               /\ expenses'[last'.ret].amount.v = 0
       /\ \A form \in Forms :
            (/\ last'.op = "manual_entry"
             /\ (form.amount.v = 0 \/ FormCategory(form) = "")
             /\ ManualEntry(form))
            => /\ last'.shown = "error"
               /\ expenses' = expenses
               /\ sqlite_sequence' = sqlite_sequence]_vars

\* C14, the case: the table holds a row of amount zero that insert_expense
\* stored, and the form, submitted on it, showed an error
C14_Witness ==
    /\ last.op = "manual_entry" /\ last.shown = "error"
    /\ \E id \in DOMAIN expenses : expenses[id].amount.v = 0

(***************************************************************************)
(* What the claims about the analysis functions speak of.                  *)
(***************************************************************************)
AllColumns == {"Category", "Amount", "Date"}

\* the positions of the table's rows
Positions == 1..Len(frame.rows)

\* a cell of Amount that is a number, or the numeral of one
ParseableAmount(a) == a.type \in {"int", "float", "numstr"} /\ ~a.nan

\* a cell of Date that no parsing strategy reads
UnparseableDate(d) == d \in {D_not_a_date, D_2024_02_30, <<>>}

\* a valid transaction: a category, a numeric amount, a calendar date
ValidRow(r) ==
    /\ ~r.Category.nan /\ r.Category.s # ""
    /\ IsNumber(r.Amount) /\ ~r.Amount.nan
    /\ ~UnparseableDate(r.Date)

ValidTable ==
    /\ frame.columns = AllColumns
    /\ \A i \in Positions : ValidRow(frame.rows[i])

\* the sum of the totals of a result
RECURSIVE SumTotals(_)
SumTotals(result) ==
    IF result = <<>> THEN 0 ELSE Head(result).total + SumTotals(Tail(result))

\* the value a row contributes under the income/expense filter, 0 if the
\* filter or the threshold drops it
Contribution(r, include_income, threshold) ==
    IF ~ParseableAmount(r.Amount) THEN 0
    ELSE IF ~include_income /\ r.Amount.v >= 0 THEN 0
    ELSE LET v == IF include_income THEN r.Amount.v ELSE -r.Amount.v
         IN  IF v >= threshold THEN v ELSE 0

\* C15: on a valid transaction table totals_by_category with
\* include_income = false returns totals that are all non-negative and whose
\* sum is the sum of |amount| over the rows with amount < 0 and |amount| at
\* least min_amount.
C15_ExpenseTotals ==
    (/\ last.op = "by_category" /\ ~last.include_income
     /\ ValidTable /\ frame.rows # <<>>)
    => /\ last.raised = ""
       /\ \A i \in DOMAIN last.result : last.result[i].total >= 0
       /\ SumTotals(last.result) =
             SumFn([i \in Positions |->
                      IF /\ frame.rows[i].Amount.v < 0
                         /\ Abs(frame.rows[i].Amount.v) >= last.threshold
                      THEN Abs(frame.rows[i].Amount.v) ELSE 0], Positions)

\* C15, the case: a valid table of an expense under the threshold, an
\* expense above it and an income gave the one total of the expense above
C15_Witness ==
    /\ last.op = "by_category" /\ ~last.include_income /\ last.threshold = 1500
    /\ ValidTable /\ Len(frame.rows) = 3
    /\ \E i \in Positions : frame.rows[i].Amount.v > 0
    /\ \E i \in Positions : frame.rows[i].Amount.v = -1000
    /\ last.result = <<Entry("Food", 2000)>>

\* the position at which a category first occurs in the input
FirstSeen(c) ==
    CHOOSE i \in Positions :
        /\ ~frame.rows[i].Category.nan /\ frame.rows[i].Category.s = c
        /\ \A j \in 1..(i - 1) :
              frame.rows[j].Category.nan \/ frame.rows[j].Category.s # c

\* C16 as stated: the categories come in descending order of total, and
\* categories of equal totals in the order of their first occurrence in the
\* input.
C16_TiesFirstSeen ==
    (last.op = "by_category" /\ last.raised = "")
    => \A i \in 1..(Len(last.result) - 1) :
          LET a == last.result[i]
              b == last.result[i + 1]
          IN  \/ a.total > b.total
              \/ a.total = b.total /\ FirstSeen(a.key) < FirstSeen(b.key)

ScenarioB ==
    <<Row(Cat("Food"), FloatAmt(-1000), D_2024_01_10),
      Row(Cat("Food"), FloatAmt(-2000), D_2023_12_31),
      Row(Cat("Gas"), IntAmt(-500), D_1_10_2024)>>

\* C16 as amended: the categories come in descending order of total, each
\* category once, with no order guaranteed among categories of equal
\* totals; [(-10,Food),(-20,Food),(-5,Gas)] gives Food 30 then Gas 5.
C16_DescendingTotals ==
    (last.op = "by_category" /\ last.raised = "")
    => /\ \A i \in 1..(Len(last.result) - 1) :
             last.result[i].total >= last.result[i + 1].total
       /\ \A i, j \in DOMAIN last.result :
             i # j => last.result[i].key # last.result[j].key
       /\ (/\ frame.rows = ScenarioB /\ {"Category", "Amount"} \subseteq frame.columns
           /\ ~last.include_income /\ last.threshold = min_amount_threshold)
          => last.result = <<Entry("Food", 3000), Entry("Gas", 500)>>

\* C16, the case: the table of the example was analysed, Food of total 30
\* before Gas of total 5
C16_Witness ==
    /\ last.op = "by_category" /\ frame.rows = ScenarioB
    /\ Len(last.result) = 2
    /\ last.result[1].key = "Food" /\ last.result[2].key = "Gas"

\* no row of the table survives coercion, the parsing of dates (monthly
\* totals only), the income/expense filter and the threshold
NoneSurvives ==
    \A i \in Positions :
        LET r == frame.rows[i]
        IN  IF last.op = "by_category"
            THEN Contribution(r, last.include_income, last.threshold) = 0
            ELSE \/ ~ParseableAmount(r.Amount)
                 \/ UnparseableDate(r.Date)
                 \/ ~last.include_income /\ r.Amount.v >= 0

\* C17 as stated: both functions return an empty mapping, without raising,
\* for an empty table and for a table none of whose rows survives.
C17_EmptyMappingAlways ==
    (/\ last.op \in {"by_category", "monthly"} /\ NoneSurvives
     /\ (frame.columns = AllColumns \/ frame = NoFrame))
    => (last.raised = "" /\ last.result = <<>>)

\* C17 as amended: both functions return an empty mapping, without raising,
\* for a table that has rows none of which survives, and raise ValueError
\* for an empty table.
C17_EmptyMappingUnlessEmpty ==
    (/\ last.op \in {"by_category", "monthly"} /\ NoneSurvives
     /\ (frame.columns = AllColumns \/ frame = NoFrame))
    => IF frame.rows = <<>>
       THEN last.raised = "ValueError"
       ELSE last.raised = "" /\ last.result = <<>>

\* C17, the case: monthly totals, incomes included, of a table of two rows,
\* one of an unparseable amount and one of an unparseable date, are empty
C17_Witness ==
    /\ last.op = "monthly" /\ last.include_income
    /\ last.raised = "" /\ last.result = <<>>
    /\ Len(frame.rows) = 2
    /\ \E i \in Positions : ~ParseableAmount(frame.rows[i].Amount)
    /\ \E i \in Positions : /\ ParseableAmount(frame.rows[i].Amount)
                              /\ UnparseableDate(frame.rows[i].Date)

\* C18: analyze_expenses_by_category called on an empty table raises
\* ValueError or TypeError and returns no result.
C18_EmptyTableRaises ==
    (last.op = "by_category" /\ frame.rows = <<>>)
    => (last.raised \in {"ValueError", "TypeError"} /\ last.result = <<>>)

\* C18, the case: the table without rows and columns, pd.DataFrame(), was
\* analysed and ValueError raised
C18_Witness ==
    /\ last.op = "by_category" /\ frame = NoFrame
    /\ last.raised = "ValueError"

\* the table without the rows of an unparseable amount and, for the monthly
\* totals, of an unparseable date
WithoutBadRows ==
    LET Good(r) == /\ ParseableAmount(r.Amount)
                   /\ last.op = "monthly" => ~UnparseableDate(r.Date)
    IN  [frame EXCEPT !.rows = SelectSeq(frame.rows, Good)]

RequiredColumns ==
    IF last.op = "by_category" THEN {"Category", "Amount"} ELSE {"Date", "Amount"}

\* C19: both functions raise when a required column is missing and never
\* because of the value of a row: a table with its columns and a row gives,
\* without raising, what the table without its rows of unparseable amount
\* or date gives.
C19_StructureRaisesValuesFilter ==
    last.op \in {"by_category", "monthly"} =>
        IF ~(RequiredColumns \subseteq frame.columns)
        THEN last.raised = "ValueError"
        ELSE frame.rows # <<>> =>
               /\ last.raised = ""
               /\ IF WithoutBadRows.rows = <<>> THEN last.result = <<>>
                  ELSE IF last.op = "by_category"
                  THEN [raised |-> "", result |-> last.result] \in
                          analyze_expenses_by_category(WithoutBadRows,
                              last.include_income, last.threshold)
                  ELSE [raised |-> "", result |-> last.result] \in
                          analyze_monthly_trend(WithoutBadRows, last.include_income)

\* C19, the case: monthly totals of three rows, one of an unparseable
\* amount, one of an unparseable date and one good, hold the good row's month
C19_Witness ==
    /\ last.op = "monthly" /\ last.raised = "" /\ Len(last.result) = 1
    /\ Len(frame.rows) = 3 /\ Len(WithoutBadRows.rows) = 1
    /\ \E i \in Positions : ~ParseableAmount(frame.rows[i].Amount)
    /\ \E i \in Positions : /\ ParseableAmount(frame.rows[i].Amount)
                              /\ UnparseableDate(frame.rows[i].Date)

\* a key YYYY-MM and the month it names, counted from year 0
IsMonthKey(k) ==
    /\ Len(k) = 7 /\ k[5] = "-"
    /\ AllDigits(SubSeq(k, 1, 4)) /\ AllDigits(SubSeq(k, 6, 7))
    /\ NumVal(SubSeq(k, 6, 7)) \in 1..12

MonthNumber(k) == NumVal(SubSeq(k, 1, 4)) * 12 + NumVal(SubSeq(k, 6, 7))

\* C20: the keys of the monthly totals are YYYY-MM strings in strictly
\* increasing chronological order, no month twice.
C20_MonthsIncreasing ==
    (last.op = "monthly" /\ last.raised = "")
    => /\ \A i \in DOMAIN last.result : IsMonthKey(last.result[i].key)
       /\ \A i \in 1..(Len(last.result) - 1) :
             MonthNumber(last.result[i].key) < MonthNumber(last.result[i + 1].key)

\* C20, the case: a table whose first row is of January 2024 and whose last
\* row is of December 2023 gave the two months, December first
C20_Witness ==
    /\ last.op = "monthly" /\ Len(last.result) = 2
    /\ Len(frame.rows) = 3
    /\ frame.rows[1].Date = D_2024_01_10 /\ frame.rows[3].Date = D_2023_12_31
    /\ MonthNumber(last.result[1].key) = 2023 * 12 + 12
    /\ MonthNumber(last.result[2].key) = 2024 * 12 + 1

\* the date the first of the fixed formats, in their order, reads in a text
FirstFormat(d) ==
    LET ks == {k \in DOMAIN common_formats : ParseFormat(d, common_formats[k]) # NoDate}
    IN  IF ks = {} THEN NoDate
        ELSE ParseFormat(d, common_formats[CHOOSE k \in ks : \A j \in ks : k <= j])

\* the date of a row: NoDate when neither automatic parsing of the text nor
\* any fixed format reads it
RowDateOf ==
    [d \in DateTexts |-> IF FirstFormat(d) # NoDate THEN FirstFormat(d)
                         ELSE to_datetimeOf[d]]

\* the rows that count in the monthly totals, and what each adds
CountsMonthly(r) ==
    /\ ParseableAmount(r.Amount)
    /\ RowDateOf[r.Date] # NoDate
    /\ last.include_income \/ r.Amount.v < 0

MonthlyValue(r) == IF last.include_income THEN r.Amount.v ELSE Abs(r.Amount.v)

MonthKey(r) == PeriodStr(to_period(RowDateOf[r.Date]))

Key_2024_01 == <<"2", "0", "2", "4", "-", "0", "1">>

\* C21: monthly totals resolve dates row by row: a row is dropped only when
\* neither automatic parsing nor any of the five fixed formats, tried in
\* their order, reads its date; every other row of a numeric amount counts
\* in the month of its date, whatever the other rows of the table are.
C21_DatesRowByRow ==
    (last.op = "monthly" /\ last.raised = "") =>
        LET counted == {i \in Positions : CountsMonthly(frame.rows[i])}
        IN  /\ {last.result[i].key : i \in DOMAIN last.result} =
                  {MonthKey(frame.rows[i]) : i \in counted}
            /\ \A e \in DOMAIN last.result :
                  LET S == {i \in counted : MonthKey(frame.rows[i]) = last.result[e].key}
                  IN  last.result[e].total =
                         SumFn([i \in S |-> MonthlyValue(frame.rows[i])], S)

\* C21, the case: the dates 2024-01-10, 1/10/2024 and not-a-date, in this
\* order, gave the one key 2024-01 holding the sum of the first two rows
C21_Witness ==
    /\ last.op = "monthly" /\ ~last.include_income
    /\ Len(frame.rows) = 3
    /\ frame.rows[1].Date = D_2024_01_10
    /\ frame.rows[2].Date = D_1_10_2024
    /\ frame.rows[3].Date = D_not_a_date
    /\ \A i \in Positions : ParseableAmount(frame.rows[i].Amount)
                              /\ frame.rows[i].Amount.v < 0
    /\ last.result = <<Entry(Key_2024_01, Abs(frame.rows[1].Amount.v)
                                           + Abs(frame.rows[2].Amount.v))>>

\* the report with every number zero, the sentinel and empty mappings
ZeroReport ==
    [total_records |-> 0, total_expenses |-> 0, total_income |-> 0,
     net_savings |-> 0, top_expense_category |-> "N/A", categories_count |-> 0,
     months_covered |-> 0, avg_monthly_expense |-> ZeroMean,
     expense_by_category |-> <<>>, monthly_expenses |-> <<>>]

IsErrorReport(r) == DOMAIN r = {"error"}

\* C22: the summary report never raises; for the empty table, a table of
\* incomes only, a table whose dates are all unparseable and a table lacking
\* a required column, as for every other table, it returns a value.
C22_ReportNeverRaises ==
    last.op = "summary" => (last.raised = "" /\ last.report # <<>>)

\* C22, the case: a table with a row and no Date column was reported on, and
\* the report came back holding the error
C22_Witness ==
    /\ last.op = "summary" /\ last.raised = ""
    /\ frame.rows # <<>> /\ "Date" \notin frame.columns
    /\ {"Category", "Amount"} \subseteq frame.columns
    /\ IsErrorReport(last.report)

\* C23 as stated: the report on an empty table is the full report with every
\* number zero, the top category "N/A" and empty mappings.
C23_EmptyTableZeroReport ==
    (last.op = "summary" /\ frame.rows = <<>>) => last.report = ZeroReport

\* C23 as amended: the report on an empty table is returned without raising
\* and holds the error of the validation and no other field.
C23_EmptyTableErrorReport ==
    (last.op = "summary" /\ frame.rows = <<>>)
    => (last.raised = "" /\ last.report = ErrorReport("ValueError"))

\* C23, the case: the table with the three columns and no row was reported on
C23_Witness ==
    /\ last.op = "summary" /\ frame.rows = <<>> /\ frame.columns = AllColumns
    /\ IsErrorReport(last.report)

Parts(msg) == {msg[i] : i \in DOMAIN msg}

Requests == IF ai.pc = "idle" THEN <<>> ELSE ai.requests

\* the requests sent to a model other than the chosen one
ToAlternate == {i \in DOMAIN Requests : Requests[i].base # ai.model_choice}

\* C25: the first request of an AI query goes to the chosen model; a
\* request goes to the alternate model only after the first has failed,
\* once, and there is no third request; after a first request that
\* succeeded there is no request to the alternate.
C25_FallbackOnceAfterFailure ==
    ai.pc # "idle" =>
        /\ Len(Requests) <= 2
        /\ Requests # <<>> => Requests[1].base = ai.model_choice
        /\ \A i \in ToAlternate : i = 2 /\ Requests[1].outcome # "ok"
        /\ Cardinality(ToAlternate) <= 1
        /\ (Requests # <<>> /\ Requests[1].outcome = "ok") => Len(Requests) = 1
        /\ (ai.pc = "done" /\ Requests # <<>> /\ Requests[1].outcome # "ok")
              => Cardinality(ToAlternate) = 1

\* C25, the case: the first request, to mistral, timed out and the one
\* request that followed went to llama3
C25_Witness ==
    /\ ai.pc = "done" /\ ai.model_choice = "mistral"
    /\ Len(ai.requests) = 2
    /\ ai.requests[1].base = "mistral" /\ ai.requests[1].outcome = "timed out"
    /\ ai.requests[2].base = "llama3" /\ ai.requests[2].outcome = "ok"

\* both requests of the query were sent and both failed
BothFailed ==
    /\ ai.pc = "done" /\ Len(ai.requests) = 2
    /\ \A i \in 1..2 : ai.requests[i].outcome # "ok"

\* C26: when the primary and the alternate request both fail, the query, in
\* basic and in advanced mode, returns an error message and no model
\* identifier, and the message embeds the context built for the query.
C26_ErrorEmbedsContext ==
    BothFailed => /\ ai.ret[2] = None
                  /\ ai.context \in Parts(ai.ret[1])

\* C27: the identifier returned names the model whose request succeeded:
\* the chosen model after a first request that succeeded, otherwise the
\* alternate, which is mistral or llama3 and not the chosen model; it is
\* absent exactly when no request succeeded.
C27_ModelUsedServed ==
    ai.pc = "done" =>
        LET served == {i \in DOMAIN ai.requests : ai.requests[i].outcome = "ok"}
        IN  /\ ai.ret[2] = None <=> served = {}
            /\ \A i \in served :
                  /\ ai.ret[2] = ai.requests[i].base
                  /\ i = Len(ai.requests)
                  /\ i = 1 => ai.ret[2] = ai.model_choice
                  /\ i = 2 => /\ ai.ret[2] \in {"mistral", "llama3"}
                              /\ ai.ret[2] # ai.model_choice

\* C27, the case: a query for a model the server does not know was served
\* by mistral
C27_Witness ==
    /\ ai.pc = "done" /\ ai.model_choice = "non-existent-model"
    /\ Len(ai.requests) = 2 /\ ai.requests[1].outcome = "model not found"
    /\ ai.requests[2].outcome = "ok" /\ ai.ret[2] = "mistral"

\* C28: ids are never reused.  sqlite_sequence is the engine's record of the
\* greatest id the table has ever assigned: it never decreases, no row has
\* an id above it, and every id assigned by an insert or by a row of a bulk
\* import is greater than it, hence greater than every id assigned before,
\* those of deleted rows included.
C28_IdsNeverReused ==
    [][/\ sqlite_sequence' >= sqlite_sequence
       /\ \A id \in DOMAIN expenses' : id <= sqlite_sequence'
       /\ \A id \in DOMAIN expenses' \ DOMAIN expenses : id > sqlite_sequence]_vars

\* C28, the case: row 1 was deleted and the insert that followed was given
\* id 2, the only row of the table
C28_Witness ==
    /\ last.op = "insert" /\ last.raised = "" /\ last.ret = 2
    /\ DOMAIN expenses = {2}

\* the numeric rows of a category, and the sum of their signed amounts
NumericRowsOf(c) ==
    {i \in Positions : /\ ParseableAmount(frame.rows[i].Amount)
                       /\ ~frame.rows[i].Category.nan
                       /\ frame.rows[i].Category.s = c}

SignedSum(S) == SumFn([i \in S |-> frame.rows[i].Amount.v], S)

\* C29: with include_income the totals by category cover the positive rows
\* in addition to the expense rows: every category with a numeric row has a
\* total, the sum of all its numeric rows, negative and positive (the
\* threshold is the default one, which no amount of the table is below in
\* magnitude).
C29_IncomeFlagIncludesAll ==
    (/\ last.op = "by_category" /\ last.include_income /\ last.raised = ""
     /\ last.threshold = min_amount_threshold)
    => \A c \in {"Food", "Gas", "Income"} :
          NumericRowsOf(c) # {} =>
             \E e \in DOMAIN last.result :
                /\ last.result[e].key = c
                /\ last.result[e].total = SignedSum(NumericRowsOf(c))

\* C30: what stats returns describes a single state of the store, also when
\* another session inserts, updates or deletes while it runs: the count,
\* the two sums, the date bounds and the category count are those of one
\* and the same table among the states the call read.
C30_StatsOneState ==
    last.op = "stats_return" =>
        \E tbl \in last.read : last.stats = get_database_stats(tbl)

====
